---- MODULE Spec2Model ----
(***************************************************************************)
(* A model of chithi, the ZFS replication tool of the chobi repository.    *)
(*                                                                         *)
(*   Spec      the per-dataset replication planner, CmdConfig::sync_dataset*)
(*             (src/src/bin/chithi.rs), one step per external command or   *)
(*             planner stage, with the commands it issues kept in cmds.    *)
(*   SpecWalk  the recursive walker of main (src/src/bin/chithi.rs), with  *)
(*             every sync_dataset call kept in synced.                     *)
(*                                                                         *)
(* Names of datasets are sequences of one-character strings, so that the   *)
(* prefix and contains tests of the source are computed, not assumed.      *)
(* Snapshot names are small integers; a snapshot's creation time is its    *)
(* number, so a catalog sorted by creation is sorted by name.              *)
(* An external command is modelled by its exit status and by the output    *)
(* the program reads; a command that cannot be spawned is not modelled.    *)
(***************************************************************************)
EXTENDS Integers, Sequences, FiniteSets, TLC

\* ---------------------------------------------------------------- bounds
\* Number of snapshot names that can pre-exist on source and target.
MaxSnaps == 2
\* Largest number of ways in which one run differs from the plain one (no
\* option given, target below a pool, source not a clone): each of --dry-run,
\* --force-delete, --no-stream, --no-sync-snap, --no-resume, --keep-sync-snap,
\* a snapshot filter, a pool-root target and a cloned source counts for one.
MaxVaried == 2
\* Largest number of children listed by `zfs list -r` in the walker.
MaxChildren == 3
\* the most sync snapshots of earlier runs a catalog holds when pruned
MaxOld == 21
\* the most optional commands skipped plus binaries missing in one transfer
MaxOff == 2
\* the most characters of a --send-options or --recv-options string, one of
\* the two being given
MaxOptLen == 3
\* the most characters of the output of `zfs send -nvP`
MaxOut == 4
\* the most characters of a dataset argument
MaxFsLen == 4
\* the longest argument handed to escape_str
MaxArgLen == 3
\* the number of values of the random part of a control-socket path
MaxRand == 2
\* the most calls of terminate and wait on a guard before it is dropped
MaxCalls == 4
\* the most snapshots of a catalog handed to the matching engine
MaxMatch == 3
\* the most snapshots `zfs get` lists for a dataset whose lines are permuted
MaxListed == 2
\* the most chunks a child writes to its stderr
MaxChunks == 1
\* the longest value of --source-bwlimit tried character by character
MaxBwLen == 3

\* ------------------------------------------------------ program constants
\* 64 * 1024 * 1024, the size below which a target counts as freshly created
MIN_TARGET_USED == 67108864
\* Snapshot::fake_newest: guid "9999999999999999999" and creation 9999999999
\* do not fit TLC's 32-bit integers; the model keeps all-nines values that do.
FAKE_NEW_SYNC_GUID == 999999999
FAKE_NEW_SYNC_CREATION == 999999998
\* prune_old_sync_snaps: snapshots destroyed per `zfs destroy` invocation
MAX_PRUNE == 10
\* get_send_size: the least size given to pv
MIN_SEND_SIZE == 4096
\* the most characters of a host name kept in a control-socket path
SANITIZED_MAX == 50
\* the pipelines of a sync: source, local and target
MaxProcs == 3

\* Option::None of a string, of a snapshot name, of a dataset name
None == "none"
NoName == -1
NoFs == <<>>

\* ------------------------------------------------------------ variables
VARIABLES
  \* planner (sync_dataset)
  args,            \* the parsed command line (Args)
  source,          \* Fs of the source dataset
  target,          \* Fs of the target dataset
  pc,              \* position in sync_dataset
  result,          \* "running", "ok" or the error sync_dataset returns
  cmds,            \* commands issued so far, in order
  env,             \* what the commands observed (catalogs, sizes, stderr)
  target_exists,   \* local of sync_dataset ("unknown" until computed)
  recv_token,      \* local of sync_dataset
  resumed,         \* local of sync_dataset
  source_snaps,    \* local of sync_dataset
  created_new_sync_snap,   \* local of sync_dataset
  newest_sync_snapshot,    \* local of sync_dataset
  target_created,  \* local of sync_dataset
  target_snaps_list,       \* local of sync_dataset
  matching,        \* matching_snapshot_and_later (None until computed)
  pending,         \* the sends the current stage still has to run
  after,           \* where sync_dataset continues once pending is empty
  \* walker (main, recursive branch)
  wargs,           \* the walker's flags
  wpc,             \* position in main
  datasets,        \* children listed on the source
  targets,         \* the computed child targets
  deferred,        \* indices deferred to the second pass
  widx,            \* loop index of the current pass
  synced,          \* sync_dataset calls made so far, with their results
  wenv,            \* what main's own commands observed (ps, parent exists)
  wresult,         \* "running", "ok" or the error main returns
  \* two runs of sync_dataset, one after the other
  job,             \* the flags and datasets both runs are given
  zfs,             \* the snapshots and bookmarks zfs holds for them
  runs,            \* what each finished run did
  \* the end of sync_dataset on catalogs of any length
  prune,           \* what the pruning is given, and what it does
  \* the tools and the pipelines of one transfer
  pipe,            \* the hosts, flags and probes, and what is built of them
  \* a function of the program applied to one input
  calc,            \* the function, its input and its result
  \* the ssh masters of one process
  ssh,             \* the endpoints, their control sockets, the commands run
  \* the child processes of one sync
  procs            \* the pipelines' processes, their guards and exits

plannerVars == <<args, source, target, pc, result, cmds, env, target_exists,
                 recv_token, resumed, source_snaps, created_new_sync_snap,
                 newest_sync_snapshot, target_created, target_snaps_list,
                 matching, pending, after>>
walkerVars == <<wargs, wpc, datasets, targets, deferred, widx, synced, wenv,
               wresult>>
twiceVars == <<job, zfs, runs>>
sideVars == <<calc, ssh, procs>>
\* all but sideVars
mainVars == <<plannerVars, walkerVars, twiceVars, prune, pipe>>
vars == <<plannerVars, walkerVars, twiceVars, prune, pipe, sideVars>>
\* what the planner's actions leave alone, and what the walker's leave alone
nonPlannerVars == <<walkerVars, twiceVars, prune, pipe, sideVars>>
nonWalkerVars == <<plannerVars, twiceVars, prune, pipe, sideVars>>

\* ------------------------------------------------------------- strings
\* str::contains(char)
Contains(s, c) == \E i \in DOMAIN s : s[i] = c
\* str::strip_prefix: whether s starts with p, and the rest of s after it
StartsWith(s, p) == Len(p) <= Len(s) /\ SubSeq(s, 1, Len(p)) = p
StripPrefix(s, p) == SubSeq(s, Len(p) + 1, Len(s))

\* ------------------------------------------------------- snapshot names
\* The name new_sync_snap generates in this run: chithi_<id><host>_<date>.
NewSyncSnapName == 0
\* Names 1..MaxSnaps are the snapshots that may pre-exist.  Name 1 is a sync
\* snapshot left by an earlier run (it starts with chithi_<id><host>), the
\* others are ordinary snapshots.
SnapNames == 1 .. MaxSnaps
\* The name the sync snapshot of the run before goes by in the next run: a
\* later date than every other snapshot's, an earlier one than this run's.
PriorSyncSnapName == MaxSnaps + 1
\* The names above it are sync snapshots of earlier runs as well.
StartsWithPruneFormat(name) ==
  name = 1 \/ name = NewSyncSnapName \/ name >= PriorSyncSnapName
\* A snapshot name no dataset holds in any run.
UnlistedName == MaxSnaps + MaxOld + 1
\* A guid no source snapshot has (a snapshot taken on the target itself).
ForeignGuid == 500

Snapshot(name, guid, creation) ==
  [name |-> name, guid |-> guid, creation |-> creation]

NoSnapshot == Snapshot(NoName, NoName, NoName)

\* Snapshot::fake_newest
fake_newest(name) == Snapshot(name, FAKE_NEW_SYNC_GUID, FAKE_NEW_SYNC_CREATION)

\* The catalog of a set of names, sorted as get_snaps sorts it.
RECURSIVE SortedCatalog(_, _)
SortedCatalog(names, guidOf) ==
  IF names = {} THEN <<>>
  ELSE LET n == CHOOSE x \in names : \A y \in names : x <= y
       IN <<Snapshot(n, guidOf[n], n)>> \o SortedCatalog(names \ {n}, guidOf)

\* --------------------------------------------------------------- Args
\* A regex of --include-snaps / --exclude-snaps is the set of snapshot names
\* it matches.  Four settings: no filter; an exclude filter that drops
\* snapshot 2; an exclude filter that matches no snapshot the source holds;
\* an include filter that matches every pre-existing name and so leaves the
\* freshly generated sync snapshot name out.
FilterChoices ==
  { [include_snaps |-> {}, exclude_snaps |-> {}],
    [include_snaps |-> {}, exclude_snaps |-> {2}],
    [include_snaps |-> {}, exclude_snaps |-> {UnlistedName}],
    [include_snaps |-> SnapNames, exclude_snaps |-> {}] }

AllArgs ==
  { [dry_run |-> d, force_delete |-> f, no_stream |-> ns, no_sync_snap |-> nss,
     no_resume |-> nr, keep_sync_snap |-> k,
     include_snaps |-> fl.include_snaps, exclude_snaps |-> fl.exclude_snaps] :
       d \in BOOLEAN, f \in BOOLEAN, ns \in BOOLEAN, nss \in BOOLEAN,
       nr \in BOOLEAN, k \in BOOLEAN, fl \in FilterChoices }

\* the number of options given
One(b) == IF b THEN 1 ELSE 0
FlagsGiven(a) ==
  One(a.dry_run) + One(a.force_delete) + One(a.no_stream) + One(a.no_sync_snap)
  + One(a.no_resume) + One(a.keep_sync_snap)
  + One(a.include_snaps # {} \/ a.exclude_snaps # {})


\* CmdConfig::snap_is_included
snap_is_included(a, snap_name) ==
  IF snap_name \in a.exclude_snaps THEN FALSE
  ELSE IF a.include_snaps = {} THEN TRUE
  ELSE snap_name \in a.include_snaps

\* `!include_snaps.is_empty() || !exclude_snaps.is_empty()`
SnapsFiltered(a) == a.include_snaps # {} \/ a.exclude_snaps # {}

\* ----------------------------------------------------------------- Fs
Fs(fs, origin) == [fs |-> fs, origin |-> origin]
\* The source dataset and, when it is a clone, its origin snapshot.
SourceFs == <<"s", "/", "a">>
SourceOrigin == <<"s", "/", "o", "@", "x">>
\* The target is a pool root or a dataset below one.
TargetFsChoices == { <<"t">>, <<"t", "/", "d">> }
TargetOrigin == <<"t", "/", "o", "@", "x">>
\* Fs::new leaves origin unset; child_from_source sets the target's origin
\* only from the source child's origin.
OriginChoices == { <<NoFs, NoFs>>, <<SourceOrigin, NoFs>>,
                   <<SourceOrigin, TargetOrigin>> }

\* The runs the planner is checked on
Scenarios ==
  { sc \in [args : AllArgs, origins : OriginChoices, tfs : TargetFsChoices] :
      FlagsGiven(sc.args) + One(sc.origins[1] # NoFs) + One(sc.tfs = <<"t">>)
        <= MaxVaried }

\* -------------------------------------------------------------- catalogs
\* CmdConfig::get_snaps and get_bookmarks: the rows `zfs get` printed, with
\* the names the filters reject dropped, sorted by creation.
get_snaps(a, names, guidOf) ==
  SortedCatalog({ n \in names : snap_is_included(a, n) }, guidOf)

SourceGuid == [n \in SnapNames |-> n]

\* Snapshot::list_to_map: name -> guid of the listed snapshots
list_to_map(list) ==
  [n \in { list[i].name : i \in DOMAIN list } |->
     (CHOOSE s \in { list[i] : i \in DOMAIN list } : s.name = n).guid]

\* CmdConfig::oldest_sync_snap and newest_sync_snap
oldest_sync_snap(snaps) == IF Len(snaps) > 0 THEN snaps[1] ELSE NoSnapshot
\* the newest snapshot, were it the generated name whatever was appended
newest_sync_snap_generated(snaps) ==
  IF Len(snaps) > 0 THEN NewSyncSnapName ELSE NoName
newest_sync_snap(snaps) ==
  IF Len(snaps) > 0 THEN snaps[Len(snaps)].name ELSE NoName

\* ------------------------------------------------------------- matching
IntermediateSnapshot(s) == [kind |-> "Snapshot", snap |-> s]
IntermediateBookmark(s) == [kind |-> "Bookmark", snap |-> s]
Matching(inter, rest) == [inter |-> inter, rest |-> rest]
NoMatching == Matching([kind |-> "None", snap |-> NoSnapshot], <<>>)
is_none(m) == m.inter.kind = "None"

\* the match, were the source catalog searched from its oldest end
get_matching_snapshot_first(sorted_source_snaps, target_snaps) ==
  LET hits == { idx \in DOMAIN sorted_source_snaps :
                  /\ sorted_source_snaps[idx].name \in DOMAIN target_snaps
                  /\ sorted_source_snaps[idx].guid =
                       target_snaps[sorted_source_snaps[idx].name] }
  IN IF hits = {} THEN NoMatching
     ELSE LET idx == CHOOSE i \in hits : \A j \in hits : i <= j
          IN Matching(IntermediateSnapshot(sorted_source_snaps[idx]),
                      SubSeq(sorted_source_snaps, idx + 1,
                             Len(sorted_source_snaps)))

\* CmdConfig::get_matching_snapshot
get_matching_snapshot(sorted_source_snaps, target_snaps) ==
  LET hits == { idx \in DOMAIN sorted_source_snaps :
                  /\ sorted_source_snaps[idx].name \in DOMAIN target_snaps
                  /\ sorted_source_snaps[idx].guid =
                       target_snaps[sorted_source_snaps[idx].name] }
  IN IF hits = {} THEN NoMatching
     ELSE LET idx == CHOOSE i \in hits : \A j \in hits : j <= i
          IN Matching(IntermediateSnapshot(sorted_source_snaps[idx]),
                      SubSeq(sorted_source_snaps, idx + 1,
                             Len(sorted_source_snaps)))

\* the bookmark match, were snapshots of the bookmark's own second kept
get_matching_bookmark_inclusive(sorted_target_snaps, sorted_source_bookmarks, sorted_source_snaps) ==
  LET bookmark_guids == { sorted_source_bookmarks[i].guid :
                            i \in DOMAIN sorted_source_bookmarks }
      thits == { i \in DOMAIN sorted_target_snaps :
                   sorted_target_snaps[i].guid \in bookmark_guids }
  IN IF thits = {} THEN NoMatching
     ELSE
       LET target_snap ==
             sorted_target_snaps[CHOOSE i \in thits : \A j \in thits : j <= i]
           bhits == { i \in DOMAIN sorted_source_bookmarks :
                        sorted_source_bookmarks[i].guid = target_snap.guid }
           bookmark ==
             sorted_source_bookmarks[CHOOSE i \in bhits : \A j \in bhits : j <= i]
           later == { i \in DOMAIN sorted_source_snaps :
                        sorted_source_snaps[i].creation >= bookmark.creation }
           source_snaps_later ==
             IF later = {} THEN <<>>
             ELSE SubSeq(sorted_source_snaps,
                         CHOOSE i \in later : \A j \in later : i <= j,
                         Len(sorted_source_snaps))
       IN Matching(IntermediateBookmark(bookmark), source_snaps_later)

\* CmdConfig::get_matching_bookmark
get_matching_bookmark(sorted_target_snaps, sorted_source_bookmarks, sorted_source_snaps) ==
  LET bookmark_guids == { sorted_source_bookmarks[i].guid :
                            i \in DOMAIN sorted_source_bookmarks }
      thits == { i \in DOMAIN sorted_target_snaps :
                   sorted_target_snaps[i].guid \in bookmark_guids }
  IN IF thits = {} THEN NoMatching
     ELSE
       LET target_snap ==
             sorted_target_snaps[CHOOSE i \in thits : \A j \in thits : j <= i]
           bhits == { i \in DOMAIN sorted_source_bookmarks :
                        sorted_source_bookmarks[i].guid = target_snap.guid }
           bookmark ==
             sorted_source_bookmarks[CHOOSE i \in bhits : \A j \in bhits : j <= i]
           later == { i \in DOMAIN sorted_source_snaps :
                        sorted_source_snaps[i].creation > bookmark.creation }
           source_snaps_later ==
             IF later = {} THEN <<>>
             ELSE SubSeq(sorted_source_snaps,
                         CHOOSE i \in later : \A j \in later : i <= j,
                         Len(sorted_source_snaps))
       IN Matching(IntermediateBookmark(bookmark), source_snaps_later)

\* ----------------------------------------------------------- io::Result
\* An error text is the sequence of its words.
Ok == [status |-> "ok", kind |-> "", msg |-> <<>>]
Running == [status |-> "running", kind |-> "", msg |-> <<>>]
Err(kind, msg) == [status |-> "err", kind |-> kind, msg |-> msg]

MsgSendSize == <<"failed", "to", "get", "estimated", "send", "size">>
MsgPipeline == <<"sync", "pipeline", "failed">>
MsgBusy == <<"target", "is", "already", "in", "zfs", "recv">>
MsgResetRecv == <<"resetting", "recv", "state", "was", "unsuccessful">>
MsgGetValue == <<"failed", "to", "get", "zfs", "property">>
MsgExists == <<"failed", "to", "check", "if", "target", "exists">>
MsgSnapshot == <<"failed", "to", "create", "snapshot">>
MsgNoSnap == <<"no", "snapshots", "on", "source">>
MsgTooSmall == <<"no", "matching", "snapshots", "and", "target", "dataset",
                 "is", "too", "small">>
MsgRoot == <<"not", "deleting", "root", "dataset">>
MsgDestroy == <<"destroying", "target", "fs", "failed", "with">>
MsgNoMatch == <<"no", "matching", "snapshots">>

\* What `zfs send -t` / `zfs receive` can print on stderr when a resume fails.
StderrStale1 == <<"cannot", "resume", "send:", "'s/a@2'", "used", "in", "the",
                  "initial", "send", "no", "longer", "exists">>
StderrStale2 == <<"cannot", "resume", "send:", "incremental", "source",
                  "0x1234", "no", "longer", "exists">>
StderrOther == <<"cannot", "receive:", "failed", "to", "read", "from", "stream">>
ResumeStderr == { StderrStale1, StderrStale2, StderrOther }

\* str::contains on word sequences
ContainsWords(text, pat) ==
  \E i \in 0 .. (Len(text) - Len(pat)) : SubSeq(text, i + 1, i + Len(pat)) = pat

RESUME_ERROR_1 == <<"used", "in", "the", "initial", "send", "no", "longer", "exists">>
\* words made of [0-9xa-f] only
HexWords == { "0x1234", "0", "beef" }
\* RESUME_ERROR_2: r"incremental source [0-9xa-f]+ no longer exists"
RESUME_ERROR_2(text) ==
  \E i \in 0 .. (Len(text) - 6) :
    /\ SubSeq(text, i + 1, i + 2) = <<"incremental", "source">>
    /\ text[i + 3] \in HexWords
    /\ SubSeq(text, i + 4, i + 6) = <<"no", "longer", "exists">>

\* the test of sync_dataset on the error a resume returned
IsStaleResumeError(e) ==
  /\ e.status = "err"
  /\ e.kind = "Other"
  /\ (ContainsWords(e.msg, RESUME_ERROR_1) \/ RESUME_ERROR_2(e.msg))

\* ------------------------------------------------------------- commands
\* One issued command: the busy check (`ps`), `zfs snapshot`, a send/receive
\* pipeline, `zfs receive -A`, `zfs destroy -r <target>`, a pruning
\* `zfs destroy`.  x is what the command names, ok its exit status.
Cmd(op, x, ok) == [op |-> op, x |-> x, ok |-> ok]

\* A send as run_sync_cmd gets it: send_from = (flag, from), send_to = to.
\* from.k tells what the text of send_from.1 names.
SendReq(kind, flag, k, n, to) ==
  [kind |-> kind, flag |-> flag, from |-> [k |-> k, n |-> n], to |-> to]

\* CmdConfig::sync_resume: zfs send -t <token>
sync_resume(token) == SendReq("resume", "-t", "token", 0, NoName)
\* CmdConfig::sync_clone: zfs send -i <source.origin> <source>@<snapshot>
sync_clone(snapshot) == SendReq("clone", "-i", "origin", 0, snapshot)
\* CmdConfig::sync_full: zfs send <source>@<snapshot>
sync_full(snapshot) == SendReq("full", "", "snapshot", snapshot, NoName)
\* CmdConfig::sync_intermidiate: zfs send -i @<snap>|#<bookmark> <source>@<to>
sync_intermidiate(from_intermediate, to_snapshot) ==
  SendReq("intermediate", "-i",
          IF from_intermediate.kind = "Bookmark" THEN "bookmark" ELSE "snapshot",
          from_intermediate.snap.name, to_snapshot)
\* CmdConfig::sync_incremental: zfs send -I <from> <source>@<to>
sync_incremental(from_snapshot, to_snapshot) ==
  SendReq("incremental", "-I", "snapshot", from_snapshot, to_snapshot)

\* the filtered stream, were every -i send made from the match
sync_incremental_or_fallback_from_match(a, m) ==
  LET snapshots == m.rest
      n == Len(snapshots)
  IN IF SnapsFiltered(a)
     THEN [i \in 1 .. n |-> sync_intermidiate(m.inter, snapshots[i].name)]
     ELSE IF m.inter.kind = "Snapshot"
     THEN <<sync_incremental(m.inter.snap.name, snapshots[n].name)>>
     ELSE <<sync_intermidiate(m.inter, snapshots[1].name)>>
          \o (IF n > 1
              THEN <<sync_incremental(snapshots[1].name, snapshots[n].name)>>
              ELSE <<>>)

\* the stream, were a bookmark handed to -I like a snapshot
sync_incremental_or_fallback_stream_only(a, m) ==
  LET snapshots == m.rest
      n == Len(snapshots)
  IN IF SnapsFiltered(a)
     THEN (IF n > 0 THEN <<sync_intermidiate(m.inter, snapshots[1].name)>>
           ELSE <<>>)
          \o [i \in 1 .. (n - 1) |->
                sync_intermidiate(IntermediateSnapshot(snapshots[i]),
                                  snapshots[i + 1].name)]
     ELSE <<SendReq("incremental", "-I",
                    IF m.inter.kind = "Bookmark" THEN "bookmark" ELSE "snapshot",
                    m.inter.snap.name, snapshots[n].name)>>

\* CmdConfig::sync_incremental_or_fallback: the sends it makes, in order
sync_incremental_or_fallback(a, m) ==
  LET snapshots == m.rest
      n == Len(snapshots)
  IN IF SnapsFiltered(a)
     THEN (IF n > 0 THEN <<sync_intermidiate(m.inter, snapshots[1].name)>>
           ELSE <<>>)
          \o [i \in 1 .. (n - 1) |->
                sync_intermidiate(IntermediateSnapshot(snapshots[i]),
                                  snapshots[i + 1].name)]
     ELSE IF m.inter.kind = "Snapshot"
     THEN <<sync_incremental(m.inter.snap.name, snapshots[n].name)>>
     ELSE <<sync_intermidiate(m.inter, snapshots[1].name)>>
          \o (IF n > 1
              THEN <<sync_incremental(snapshots[1].name, snapshots[n].name)>>
              ELSE <<>>)

\* the batches, were the whole list one batch
chunks_whole(s, n) == IF Len(s) = 0 THEN <<>> ELSE <<s>>

\* slice::chunks
RECURSIVE Chunks(_, _)
Chunks(s, n) ==
  IF Len(s) = 0 THEN <<>>
  ELSE IF Len(s) <= n THEN <<s>>
  ELSE <<SubSeq(s, 1, n)>> \o Chunks(SubSeq(s, n + 1, Len(s)), n)

\* Sequence::from and Sequence::to_cmd: the one invocation that runs
\* `zfs destroy` on each snapshot of a batch
Sequence_from(role, chunk) ==
  Cmd("destroy", [role |-> role, snaps |-> chunk], TRUE)

\* the exit statuses of the invocations: those in fails exit nonzero, which
\* prune_old_sync_snaps only warns about
Exited(invocations, fails) ==
  [i \in DOMAIN invocations |-> [invocations[i] EXCEPT !.ok = i \notin fails]]

\* CmdConfig::prune_old_sync_snaps: the `zfs destroy` invocations it makes
prune_old_sync_snaps(role, snapshots, new_snapshot) ==
  LET IsOld(snap) == snap.name # new_snapshot /\ StartsWithPruneFormat(snap.name)
      old == SelectSeq(snapshots, IsOld)
      snaps == [i \in DOMAIN old |-> old[i].name]
      chunks == Chunks(snaps, MAX_PRUNE)
  IN [i \in DOMAIN chunks |-> Sequence_from(role, chunks[i])]

\* ============================================================= planner
\* The values of the syncoid:sync property: a word, or a host list.
LocalHost == "me"
SyncValues == { <<"true">>, <<"-">>, <<>>, <<"false">>,
                <<"other">>, <<"other", "me">> }

\* The lines of `ps -Ao args=` that matter: the command and its last argument.
PsLine(cmd, arg) == [cmd |-> cmd, arg |-> arg]
\* zfs_recv, r"zfs *(receive|recv).*\s$", on the text before the stripped
\* dataset suffix: the line is a zfs receive whose last argument is the fs.
zfs_recv_is_match(line, fs) ==
  line.cmd \in { "zfs receive", "zfs recv" } /\ line.arg = fs
\* CmdConfig::is_zfs_busy
is_zfs_busy(lines, fs) == \E line \in lines : zfs_recv_is_match(line, fs)
\* Two `ps` outputs, one per answer of the busy check
PsFree(fs) == { PsLine("zfs send", fs), PsLine("zfs receive", <<"o">>) }
PsBusy(fs) == { PsLine("zfs recv", fs), PsLine("sh", fs) }
PsOutputs(fs) == { PsFree(fs), PsBusy(fs) }

\* the `used` sizes a target can report
UsedSizes == { MIN_TARGET_USED - 1, MIN_TARGET_USED, 104857600 }

\* nothing observed yet: no used size, no stderr, no target catalog
NoEnv == [used |-> NoName, resume_stderr |-> <<>>, target_snaps |-> <<>>]

NoWEnv == [ps |-> {}, parent |-> "unknown"]
\* the walker before main has run
WalkerIdle ==
  /\ wargs = <<>>
  /\ wpc = "idle"
  /\ datasets = <<>>
  /\ targets = <<>>
  /\ deferred = <<>>
  /\ widx = 0
  /\ synced = <<>>
  /\ wenv = NoWEnv
  /\ wresult = Running

\* no pair of runs under way
TwiceIdle ==
  /\ job = <<>>
  /\ zfs = <<>>
  /\ runs = <<>>
\* no pruning and no pipeline under way
PruneIdle == prune = <<>>
PipeIdle == pipe = <<>>
CalcIdle == calc = <<>>
SshIdle == ssh = <<>>
ProcsIdle == procs = <<>>
SideIdle == CalcIdle /\ SshIdle /\ ProcsIdle

Finish(r) == /\ pc' = "done"
             /\ result' = r
Goto(l) == /\ pc' = l
           /\ result' = result

Init ==
  /\ \E sc \in Scenarios :
       /\ args = sc.args
       /\ source = Fs(SourceFs, sc.origins[1])
       /\ target = Fs(sc.tfs, sc.origins[2])
  /\ pc = "entry"
  /\ result = Running
  /\ cmds = <<>>
  /\ env = NoEnv
  /\ target_exists = "unknown"
  /\ recv_token = None
  /\ resumed = FALSE
  /\ source_snaps = <<>>
  /\ created_new_sync_snap = NoName
  /\ newest_sync_snapshot = NoName
  /\ target_created = FALSE
  /\ target_snaps_list = <<>>
  /\ matching = NoMatching
  /\ pending = <<>>
  /\ after = "done"
  /\ WalkerIdle
  /\ TwiceIdle
  /\ PruneIdle
  /\ SideIdle
  /\ PipeIdle

\* sync_dataset, the syncoid:sync property: skip the dataset or go on
sync_enabled(sync) ==
  IF sync = <<"false">> THEN FALSE
  ELSE IF sync \notin { <<"true">>, <<"-">>, <<>> }
  THEN \E i \in DOMAIN sync : sync[i] = LocalHost
  ELSE TRUE

Entry ==
  /\ pc = "entry"
  /\ \E got \in { "value", "not_found", "error" } :
       IF got = "not_found" THEN Finish(Ok)
       ELSE IF got = "error" THEN Finish(Err("Other", MsgGetValue))
       ELSE \E sync \in SyncValues :
              IF sync_enabled(sync) THEN Goto("busy") ELSE Finish(Ok)
  /\ UNCHANGED <<args, source, target, cmds, env, target_exists, recv_token,
                 resumed, source_snaps, created_new_sync_snap,
                 newest_sync_snapshot, target_created, target_snaps_list,
                 matching, pending, after>>
  /\ UNCHANGED nonPlannerVars

\* sync_dataset, the busy check before the target is inspected
BusyCheck ==
  /\ pc = "busy"
  /\ \E ps \in PsOutputs(target.fs) :
       LET busy == is_zfs_busy(ps, target.fs)
       IN /\ cmds' = Append(cmds, Cmd("ps", target.fs, busy))
          /\ IF busy THEN Finish(Err("ResourceBusy", MsgBusy))
             ELSE Goto("exists")
  /\ UNCHANGED <<args, source, target, env, target_exists, recv_token,
                 resumed, source_snaps, created_new_sync_snap,
                 newest_sync_snapshot, target_created, target_snaps_list,
                 matching, pending, after>>
  /\ UNCHANGED nonPlannerVars

\* CmdConfig::get_resume_token: "-" and "" mean no token
get_resume_token(value) == IF value \in { "-", "" } THEN None ELSE value

\* sync_dataset, target_exists and the resume token; a token starts a resume
TargetExists ==
  /\ pc = "exists"
  /\ \E ex \in { "yes", "no", "error" } :
       IF ex = "error"
       THEN /\ Finish(Err("Other", MsgExists))
            /\ UNCHANGED <<target_exists, recv_token, pending, after>>
       ELSE IF ex = "no" \/ args.no_resume
       THEN /\ target_exists' = ex
            /\ Goto("collect")
            /\ UNCHANGED <<recv_token, pending, after>>
       ELSE \E tok \in { "-", "", "abc", "error" } :
              /\ target_exists' = ex
              /\ IF tok = "error"
                 THEN /\ Finish(Err("Other", MsgGetValue))
                      /\ UNCHANGED <<recv_token, pending, after>>
                 ELSE /\ recv_token' = get_resume_token(tok)
                      /\ IF get_resume_token(tok) # None
                         THEN /\ pending' = <<sync_resume(tok)>>
                              /\ after' = "collect"
                              /\ Goto("send")
                         ELSE /\ Goto("collect")
                              /\ UNCHANGED <<pending, after>>
  /\ UNCHANGED <<args, source, target, cmds, env, resumed, source_snaps,
                 created_new_sync_snap, newest_sync_snapshot, target_created,
                 target_snaps_list, matching>>
  /\ UNCHANGED nonPlannerVars

\* A send names a snapshot that is not on the source: under --dry-run the
\* sync snapshot was named but never taken, so zfs knows nothing of it.
NamesUntakenSnapshot(req) ==
  /\ args.dry_run
  /\ created_new_sync_snap # NoName
  /\ \/ req.to = created_new_sync_snap
     \/ req.from.k = "snapshot" /\ req.from.n = created_new_sync_snap

\* CmdConfig::run_sync_cmd after get_send_size: the commands it issues and
\* what it returns, given the exit status of the estimate, the `ps` output
\* and the exit status of the pipelines.
run_sync_cmd(a, t, req, size_ok, ps, run_ok) ==
  LET busy == is_zfs_busy(ps, t.fs)
      check == Cmd("ps", t.fs, busy)
      send(ran, ok) == Cmd("send", [flag |-> req.flag, from |-> req.from,
                                    to |-> req.to, ran |-> ran], ok)
  IN IF ~ size_ok
     THEN [cmds |-> <<>>, res |-> Err("Other", MsgSendSize)]
     ELSE IF busy
     THEN [cmds |-> <<check>>, res |-> Err("ResourceBusy", MsgBusy)]
     ELSE IF a.dry_run
     THEN [cmds |-> <<check, send(FALSE, TRUE)>>, res |-> Ok]
     ELSE IF run_ok
     THEN [cmds |-> <<check, send(TRUE, TRUE)>>, res |-> Ok]
     ELSE [cmds |-> <<check, send(TRUE, FALSE)>>,
           res |-> Err("Other", MsgPipeline)]

\* the stream path, were --no-stream not looked at
stream_path_always_streams(a, m) ==
  IF m.rest = <<>> THEN <<>>
  ELSE sync_incremental_or_fallback(a, m)

\* sync_dataset, the stream path: nothing to send, or the incremental sends
\* from the match m to the newest snapshot
stream_path(a, m) ==
  IF m.rest = <<>> THEN <<>>
  ELSE IF a.no_stream
  THEN <<sync_intermidiate(m.inter, m.rest[Len(m.rest)].name)>>
  ELSE sync_incremental_or_fallback(a, m)

StreamPath(m) ==
  /\ matching' = m
  /\ IF stream_path(args, m) = <<>>
     THEN /\ Finish(Ok)
          /\ UNCHANGED <<pending, after>>
     ELSE /\ pending' = stream_path(args, m)
          /\ after' = "post"
          /\ Goto("send")

\* sync_dataset, where it goes on when the sends of a stage are done
Continue ==
  IF after = "done"
  THEN \* --no-stream initial send: `return self.sync_full(..)`
       /\ Finish(Ok)
       /\ pending' = <<>>
       /\ UNCHANGED <<target_created, target_snaps_list, matching, after>>
  ELSE IF after = "created"
  THEN \* the target now holds the oldest snapshot; match and stream
       LET list == <<oldest_sync_snap(source_snaps)>>
       IN /\ target_created' = TRUE
          /\ target_snaps_list' = list
          /\ StreamPath(get_matching_snapshot(source_snaps, list_to_map(list)))
  ELSE IF after = "redo"
  THEN \* after destroy -r and the initial send: match again and stream
       LET list == <<oldest_sync_snap(source_snaps)>>
           again == get_matching_snapshot(source_snaps, list_to_map(list))
       IN /\ target_snaps_list' = list
          /\ target_created' = target_created
          /\ IF is_none(again)
             THEN /\ Finish(Err("Other", <<"building", "matching", "snapshots",
                                           "from", "oldest", "failed">>))
                  /\ pending' = <<>>
                  /\ UNCHANGED <<matching, after>>
             ELSE StreamPath(again)
  ELSE \* after a resume: "collect"; after the incremental sends: "post"
       /\ Goto(after)
       /\ pending' = <<>>
       /\ UNCHANGED <<target_created, target_snaps_list, matching, after>>

\* What the caller of a send does with its result r (sync_dataset for a
\* resume, sync_clone for a clone, `?` for the others).
AfterSend(req, r, stderr, reset_ok) ==
  /\ env' = IF req.kind = "resume" /\ r.res.status = "err" /\ r.res.kind = "Other"
            THEN [env EXCEPT !.resume_stderr = stderr] ELSE env
  /\ IF r.res.status = "ok"
     THEN /\ cmds' = cmds \o r.cmds
          /\ resumed' = (resumed \/ req.kind = "resume")
          /\ IF Tail(pending) # <<>>
             THEN /\ pending' = Tail(pending)
                  /\ Goto("send")
                  /\ UNCHANGED <<target_created, target_snaps_list, matching,
                                 after>>
             ELSE Continue
     ELSE IF req.kind = "resume" /\ IsStaleResumeError(r.res)
     THEN \* reset_recv_state, then go on without the token
          /\ cmds' = cmds \o r.cmds \o <<Cmd("receive_A", target.fs, reset_ok)>>
          /\ resumed' = resumed
          /\ IF reset_ok THEN Continue
             ELSE /\ Finish(Err("Other", MsgResetRecv))
                  /\ UNCHANGED <<pending, target_created, target_snaps_list,
                                 matching, after>>
     ELSE IF req.kind = "clone" /\ r.res # Err("Other", MsgSendSize)
     THEN \* sync_clone falls back to sync_full of the same snapshot when
          \* run_sync_cmd fails (a failed estimate is returned by `?`)
          /\ cmds' = cmds \o r.cmds
          /\ resumed' = resumed
          /\ pending' = <<sync_full(req.to)>> \o Tail(pending)
          /\ Goto("send")
          /\ UNCHANGED <<target_created, target_snaps_list, matching, after>>
     ELSE /\ cmds' = cmds \o r.cmds
          /\ resumed' = resumed
          /\ Finish(r.res)
          /\ UNCHANGED <<pending, target_created, target_snaps_list, matching,
                         after>>

\* One send of the current stage: get_send_size, run_sync_cmd, and the
\* caller's handling of the result.  The estimate fails, or the target is
\* busy, or the pipelines run and exit zero or nonzero.
RunSyncCmd ==
  /\ pc = "send"
  /\ pending # <<>>
  /\ LET req == pending[1] IN
     \E how \in { "size_failed", "busy", "failed", "ok" } :
       /\ NamesUntakenSnapshot(req) => how = "size_failed"
       /\ LET r == run_sync_cmd(args, target, req, how # "size_failed",
                                IF how = "busy" THEN PsBusy(target.fs)
                                ELSE PsFree(target.fs),
                                how = "ok")
          IN IF req.kind = "resume" /\ r.res.status = "err"
                /\ r.res.kind = "Other"
             THEN \E stderr \in ResumeStderr, reset_ok \in BOOLEAN :
                    AfterSend(req, r, stderr, reset_ok)
             ELSE AfterSend(req, r, <<>>, TRUE)
  /\ UNCHANGED <<args, source, target, target_exists, recv_token,
                 source_snaps, created_new_sync_snap, newest_sync_snapshot>>
  /\ UNCHANGED nonPlannerVars

\* CmdConfig::new_sync_snap: the name it returns (NoName when the filters
\* reject the generated name)
new_sync_snap(a) ==
  IF snap_is_included(a, NewSyncSnapName) THEN NewSyncSnapName ELSE NoName

\* the initial send, were it always of the newest snapshot
create_path_newest(a, src, tgt, newest, oldest) ==
  LET first(snapshot) == IF src.origin # NoFs /\ tgt.origin # NoFs
                         THEN sync_clone(snapshot) ELSE sync_full(snapshot)
  IN IF a.no_stream
     THEN [pending |-> <<first(newest)>>, after |-> "done"]
     ELSE [pending |-> <<first(newest)>>, after |-> "created"]

\* sync_dataset, the target does not exist: the initial send
create_path(a, src, tgt, newest, oldest) ==
  LET first(snapshot) == IF src.origin # NoFs /\ tgt.origin # NoFs
                         THEN sync_clone(snapshot) ELSE sync_full(snapshot)
  IN IF a.no_stream
     THEN [pending |-> <<first(newest)>>, after |-> "done"]
     ELSE [pending |-> <<first(oldest.name)>>, after |-> "created"]

\* sync_dataset, the source catalog, the sync snapshot, and the initial send
\* when the target does not exist
SnapshotCollect ==
  /\ pc = "collect"
  /\ \E names \in SUBSET SnapNames, snap_ok \in BOOLEAN :
       LET listed == get_snaps(args, names, SourceGuid)
           new == IF ~ args.no_sync_snap THEN new_sync_snap(args) ELSE NoName
           taken == new # NoName /\ ~ args.dry_run
           snaps == IF new # NoName THEN Append(listed, fake_newest(new))
                    ELSE listed
           plan == create_path(args, source, target, newest_sync_snap(snaps),
                               oldest_sync_snap(snaps))
       IN IF taken /\ ~ snap_ok
          THEN /\ cmds' = Append(cmds, Cmd("snapshot", new, FALSE))
               /\ Finish(Err("Other", MsgSnapshot))
               /\ source_snaps' = listed
               /\ UNCHANGED <<created_new_sync_snap, newest_sync_snapshot,
                              pending, after>>
          ELSE /\ snap_ok
               /\ cmds' = IF taken THEN Append(cmds, Cmd("snapshot", new, TRUE))
                          ELSE cmds
               /\ source_snaps' = snaps
               /\ created_new_sync_snap' = new
               /\ newest_sync_snapshot' = newest_sync_snap(snaps)
               /\ IF newest_sync_snap(snaps) = NoName
                  THEN /\ Finish(Err("Other", MsgNoSnap))
                       /\ UNCHANGED <<pending, after>>
                  ELSE IF target_exists = "yes"
                  THEN /\ Goto("match")
                       /\ UNCHANGED <<pending, after>>
                  ELSE /\ pending' = plan.pending
                       /\ after' = plan.after
                       /\ Goto("send")
  /\ UNCHANGED <<args, source, target, env, target_exists, recv_token, resumed,
                 target_created, target_snaps_list, matching>>
  /\ UNCHANGED nonPlannerVars

\* What `zfs get` can list for a target: per name, no snapshot, the source's
\* snapshot, or a snapshot of the same name taken on the target.
TargetListings == [SnapNames -> { "absent", "same", "foreign" }]
TargetCatalog(a, listing) ==
  get_snaps(a, { n \in SnapNames : listing[n] # "absent" },
            [n \in SnapNames |-> IF listing[n] = "same" THEN n ELSE ForeignGuid])

\* the size check, were --force-delete to switch it off
target_too_small_unless_forced(a, used) ==
  LET target_size == IF a.dry_run THEN MIN_TARGET_USED ELSE used
  IN target_size < MIN_TARGET_USED /\ ~ a.force_delete

\* sync_dataset, the size check of a target nothing matches: under --dry-run
\* the size is taken to be 64 MiB, else it is the target's `used`
target_too_small(a, used) ==
  LET target_size == IF a.dry_run THEN MIN_TARGET_USED ELSE used
  IN target_size < MIN_TARGET_USED

\* the decision, were the pool-root test left out
no_match_decision_any_target(a, t, used) ==
  IF target_too_small(a, used) THEN Err("Other", MsgTooSmall)
  ELSE IF a.force_delete THEN Ok
  ELSE Err("Other", MsgNoMatch)

\* sync_dataset, no snapshot and no bookmark matches: the error it returns,
\* or Ok when the target is to be destroyed and sent afresh.
no_match_decision(a, t, used) ==
  IF target_too_small(a, used) THEN Err("Other", MsgTooSmall)
  ELSE IF a.force_delete /\ ~ Contains(t.fs, "/") THEN Err("Other", MsgRoot)
  ELSE IF a.force_delete THEN Ok
  ELSE Err("Other", MsgNoMatch)

\* the send after the destroy, were it always of the newest snapshot
redo_path_newest(a, newest, oldest) ==
  IF a.no_stream
  THEN [pending |-> <<sync_full(newest)>>, after |-> "done"]
  ELSE [pending |-> <<sync_full(newest)>>, after |-> "redo"]

\* sync_dataset, after destroy -r: the full send of the newest snapshot under
\* --no-stream, else of the oldest, to be followed by the stream
redo_path(a, newest, oldest) ==
  IF a.no_stream
  THEN [pending |-> <<sync_full(newest)>>, after |-> "done"]
  ELSE [pending |-> <<sync_full(oldest.name)>>, after |-> "redo"]

\* sync_dataset, nothing matched: size check, root check, destroy -r and the
\* initial send
NoMatch(list, used, destroy_ok) ==
  LET decision == no_match_decision(args, target, used)
  IN /\ matching' = matching
     /\ env' = [env EXCEPT !.target_snaps = list,
                           !.used = IF args.dry_run THEN @ ELSE used]
     /\ IF decision.status = "err"
        THEN /\ Finish(decision)
             /\ UNCHANGED <<cmds, pending, after>>
        ELSE /\ cmds' = Append(cmds, Cmd("destroy_r", target.fs, destroy_ok))
             /\ IF ~ destroy_ok
                THEN /\ Finish(Err("Other", MsgDestroy))
                     /\ UNCHANGED <<pending, after>>
                ELSE /\ Goto("send")
                     /\ pending' = redo_path(args, newest_sync_snapshot,
                                  oldest_sync_snap(source_snaps)).pending
                     /\ after' = redo_path(args, newest_sync_snapshot,
                                  oldest_sync_snap(source_snaps)).after

\* sync_dataset, the target exists: its catalog, the matching engine (the
\* bookmarks are read only when no snapshot matches), then the stream path
\* or the no-match path
MatchPath ==
  /\ pc = "match"
  /\ \E listing \in TargetListings :
       LET list == TargetCatalog(args, listing)
           matching_snap == get_matching_snapshot(source_snaps, list_to_map(list))
       IN /\ target_snaps_list' = list
          /\ IF ~ is_none(matching_snap)
             THEN /\ StreamPath(matching_snap)
                  /\ env' = [env EXCEPT !.target_snaps = list]
                  /\ cmds' = cmds
             ELSE \E bnames \in SUBSET SnapNames :
                    LET source_bookmarks == get_snaps(args, bnames, SourceGuid)
                        bookmark == get_matching_bookmark(list, source_bookmarks,
                                                          source_snaps)
                    IN IF ~ is_none(bookmark)
                       THEN /\ StreamPath(bookmark)
                            /\ env' = [env EXCEPT !.target_snaps = list]
                            /\ cmds' = cmds
                       ELSE \E used \in UsedSizes, destroy_ok \in BOOLEAN :
                              NoMatch(list, used, destroy_ok)
  /\ UNCHANGED <<args, source, target, target_exists, recv_token, resumed,
                 source_snaps, created_new_sync_snap, newest_sync_snapshot,
                 target_created>>
  /\ UNCHANGED nonPlannerVars

\* sync_dataset, pruning of the old sync snapshots on source and target
post(a, created, ssnaps, tsnaps) ==
  IF ~ a.keep_sync_snap /\ created # NoName
  THEN prune_old_sync_snaps("source", ssnaps, created)
       \o prune_old_sync_snaps("target", tsnaps, created)
  ELSE <<>>

Post ==
  /\ pc = "post"
  /\ LET destroys == post(args, created_new_sync_snap, source_snaps,
                          target_snaps_list)
     IN \E fails \in SUBSET DOMAIN destroys :
          cmds' = cmds \o Exited(destroys, fails)
  /\ Finish(Ok)
  /\ UNCHANGED <<args, source, target, env, target_exists, recv_token, resumed,
                 source_snaps, created_new_sync_snap, newest_sync_snapshot,
                 target_created, target_snaps_list, matching, pending, after>>
  /\ UNCHANGED nonPlannerVars

Next ==
  \/ Entry
  \/ BusyCheck
  \/ TargetExists
  \/ RunSyncCmd
  \/ SnapshotCollect
  \/ MatchPath
  \/ Post

Spec == Init /\ [][Next]_vars

\* ============================================================== walker
\* main with --recursive: the source parent s, the target parent t, and up to
\* MaxChildren children of s, named as `zfs list -r` prints them (sorted).
WSource == Fs(<<"s">>, NoFs)
WTarget == Fs(<<"t">>, NoFs)
ChildLetters == <<"a", "b", "c", "d", "e">>
ChildName(i) == <<"s", "/", ChildLetters[i]>>
\* The origin column of a child: "-", a snapshot outside the source tree, a
\* snapshot of the parent (0), or a snapshot of another child.
OriginCodes == { -2, -1 } \cup (0 .. MaxChildren)
OriginText(code) ==
  IF code = -1 THEN <<"-">>
  ELSE IF code = -2 THEN <<"p", "/", "z", "@", "x">>
  ELSE IF code = 0 THEN <<"s", "@", "x">>
  ELSE ChildName(code) \o <<"@", "x">>
\* zfs clones form a forest: following origins never comes back
RECURSIVE Upstream(_, _, _)
Upstream(o, i, k) ==
  IF k = 0 \/ i <= 0 THEN i ELSE Upstream(o, o[i], k - 1)
OriginMaps ==
  { o \in [1 .. MaxChildren -> OriginCodes] :
      \A i \in 1 .. MaxChildren : Upstream(o, i, MaxChildren) <= 0 }
\* the rows of `zfs list -o name,origin -Hr s` with k children
ListRows(k, o) ==
  <<[name |-> WSource.fs, origin |-> <<"-">>]>>
  \o [i \in 1 .. k |-> [name |-> ChildName(i), origin |-> OriginText(o[i])]]

\* Fs::new_child
new_child(name, origin) == Fs(name, IF origin = <<"-">> THEN NoFs ELSE origin)

\* CmdConfig::get_child_datasets: the children made of the rows, the parent
\* row dropped under --skip-parent
get_child_datasets(a, rows) ==
  LET kept == IF a.skip_parent THEN Tail(rows) ELSE rows
  IN [i \in DOMAIN kept |-> new_child(kept[i].name, kept[i].origin)]

\* Fs::child_from_source (the child starts with the source)
child_from_source(self, src, child, clone_handling) ==
  LET target_dataset == self.fs \o StripPrefix(child.fs, src.fs)
      target_origin ==
        IF clone_handling /\ child.origin # NoFs
           /\ StartsWith(child.origin, src.fs)
        THEN self.fs \o StripPrefix(child.origin, src.fs)
        ELSE <<"-">>
  IN new_child(target_dataset, target_origin)

\* Fs::origin_dataset: the origin up to its first '@'
origin_dataset(f) ==
  IF f.origin # NoFs /\ Contains(f.origin, "@")
  THEN SubSeq(f.origin, 1,
              (CHOOSE i \in DOMAIN f.origin :
                 /\ f.origin[i] = "@"
                 /\ \A j \in 1 .. (i - 1) : f.origin[j] # "@") - 1)
  ELSE NoFs

\* the early check, were only the first target looked for
is_zfs_busy_for_first(lines, fss) ==
  \E line \in lines : zfs_recv_is_match(line, fss[1].fs)

\* CmdConfig::is_zfs_busy_for
is_zfs_busy_for(lines, fss) ==
  \E line \in lines : \E i \in DOMAIN fss : zfs_recv_is_match(line, fss[i].fs)

\* main, the test that defers a child to the second pass
is_deferred(a, child_target, tgts) ==
  /\ a.clone_handling
  /\ child_target.origin # NoFs
  /\ \E i \in DOMAIN tgts : tgts[i].fs = origin_dataset(child_target)

\* the planner while the walker is checked
PlannerIdle ==
  /\ args = <<>>
  /\ source = WSource
  /\ target = WTarget
  /\ pc = "idle"
  /\ result = Running
  /\ cmds = <<>>
  /\ env = NoEnv
  /\ target_exists = "unknown"
  /\ recv_token = None
  /\ resumed = FALSE
  /\ source_snaps = <<>>
  /\ created_new_sync_snap = NoName
  /\ newest_sync_snapshot = NoName
  /\ target_created = FALSE
  /\ target_snaps_list = <<>>
  /\ matching = NoMatching
  /\ pending = <<>>
  /\ after = "done"

\* --skip-parent, --no-clone-handling and --no-recv-check-start require
\* --recursive
WalkArgs ==
  { a \in [recursive : BOOLEAN, clone_handling : BOOLEAN,
           recv_check_start : BOOLEAN, skip_parent : BOOLEAN] :
      ~ a.recursive
        => a.clone_handling /\ a.recv_check_start /\ ~ a.skip_parent }

InitWalk ==
  /\ PlannerIdle
  /\ TwiceIdle
  /\ PruneIdle
  /\ SideIdle
  /\ PipeIdle
  /\ wargs \in WalkArgs
  /\ wpc = "start"
  /\ datasets = <<>>
  /\ targets = <<>>
  /\ deferred = <<>>
  /\ widx = 0
  /\ synced = <<>>
  /\ wenv = NoWEnv
  /\ wresult = Running

WFinish(r) == /\ wpc' = "done"
              /\ wresult' = r

\* what one sync_dataset call can return
SyncResults == { Ok, Err("Other", MsgPipeline), Err("ResourceBusy", MsgBusy) }
SyncCall(i, src, tgt, r) == [i |-> i, source |-> src, target |-> tgt, res |-> r]

\* a call whose result is dropped
propagates_never(r) == FALSE

\* the `?` after a sync_dataset call: an error ends main with that error
propagates(r) == r.status = "err"

\* main without --recursive: one sync_dataset call
SyncOne ==
  /\ wpc = "start"
  /\ ~ wargs.recursive
  /\ \E r \in SyncResults :
       /\ synced' = Append(synced, SyncCall(0, WSource, WTarget, r))
       /\ WFinish(r)
  /\ UNCHANGED <<wargs, datasets, targets, deferred, widx, wenv>>
  /\ UNCHANGED nonWalkerVars

\* main, get_child_datasets and the building of the targets
ListChildren ==
  /\ wpc = "start"
  /\ wargs.recursive
  /\ \E listed \in BOOLEAN :
       IF ~ listed
       THEN /\ WFinish(Err("Other", <<"failed", "to", "get", "child", "datasets">>))
            /\ UNCHANGED <<datasets, targets>>
       ELSE \E k \in 0 .. MaxChildren, o \in OriginMaps :
              LET children == get_child_datasets(wargs, ListRows(k, o))
              IN /\ datasets' = children
                 /\ IF children = <<>>
                    THEN /\ WFinish(Err("NotFound", <<"no", "source", "datasets",
                                                      "found">>))
                         /\ targets' = targets
                    ELSE /\ targets' =
                              [i \in DOMAIN children |->
                                 child_from_source(WTarget, WSource, children[i],
                                                   wargs.clone_handling)]
                         /\ wpc' = "busy"
                         /\ wresult' = wresult
  /\ UNCHANGED <<wargs, deferred, widx, synced, wenv>>
  /\ UNCHANGED nonWalkerVars

\* the `ps` outputs of the early check: a receive into one of the possible
\* child targets, or into a dataset elsewhere
WalkPsOutputs ==
  { { PsLine("zfs receive", fs) } :
      fs \in { <<"t">>, <<"o">> }
             \cup { <<"t", "/", ChildLetters[i]>> : i \in 1 .. MaxChildren } }

\* main, the early check for busy children
PreflightBusy ==
  /\ wpc = "busy"
  /\ IF wargs.recv_check_start
     THEN \E ps \in WalkPsOutputs :
            /\ wenv' = [wenv EXCEPT !.ps = ps]
            /\ IF is_zfs_busy_for(ps, targets)
               THEN WFinish(Err("ResourceBusy", <<"one", "of", "the", "child",
                                                  "datasets", "are", "in", "recv">>))
               ELSE /\ wpc' = "parent"
                    /\ wresult' = wresult
     ELSE /\ wpc' = "parent"
          /\ wresult' = wresult
          /\ wenv' = wenv
  /\ UNCHANGED <<wargs, datasets, targets, deferred, widx, synced>>
  /\ UNCHANGED nonWalkerVars

\* main, --skip-parent needs the target parent to exist
PreflightParent ==
  /\ wpc = "parent"
  /\ IF wargs.skip_parent
     THEN \E ex \in { "yes", "no", "error" } :
            /\ wenv' = [wenv EXCEPT !.parent = ex]
            /\ IF ex = "error" THEN WFinish(Err("Other", MsgExists))
               ELSE IF ex = "no"
               THEN WFinish(Err("ResourceBusy",
                                <<"--skip-parent", "is", "set,", "but", "the",
                                  "target", "parent", "dataset", "does", "not",
                                  "exist">>))
               ELSE /\ wpc' = "first"
                    /\ wresult' = wresult
     ELSE /\ wpc' = "first"
          /\ wresult' = wresult
          /\ wenv' = wenv
  /\ widx' = 1
  /\ UNCHANGED <<wargs, datasets, targets, deferred, synced>>
  /\ UNCHANGED nonWalkerVars

\* main, one iteration of the first loop: defer the child or sync it; after
\* the last child the second loop starts
FirstPass ==
  /\ wpc = "first"
  /\ IF widx > Len(datasets)
     THEN /\ wpc' = "deferred"
          /\ widx' = 1
          /\ UNCHANGED <<deferred, synced, wresult>>
     ELSE IF is_deferred(wargs, targets[widx], targets)
     THEN /\ deferred' = Append(deferred, widx)
          /\ widx' = widx + 1
          /\ UNCHANGED <<wpc, synced, wresult>>
     ELSE \E r \in SyncResults :
            /\ synced' = Append(synced, SyncCall(widx, datasets[widx],
                                                 targets[widx], r))
            /\ deferred' = deferred
            /\ IF ~ propagates(r)
               THEN /\ widx' = widx + 1
                    /\ UNCHANGED <<wpc, wresult>>
               ELSE /\ WFinish(r)
                    /\ widx' = widx
  /\ UNCHANGED <<wargs, datasets, targets, wenv>>
  /\ UNCHANGED nonWalkerVars

\* main, one iteration of the second loop, then the end of main
DeferredPass ==
  /\ wpc = "deferred"
  /\ IF widx > Len(deferred)
     THEN /\ WFinish(Ok)
          /\ UNCHANGED <<widx, synced>>
     ELSE \E r \in SyncResults :
            /\ synced' = Append(synced, SyncCall(deferred[widx],
                                                 datasets[deferred[widx]],
                                                 targets[deferred[widx]], r))
            /\ IF ~ propagates(r)
               THEN /\ widx' = widx + 1
                    /\ UNCHANGED <<wpc, wresult>>
               ELSE /\ WFinish(r)
                    /\ widx' = widx
  /\ UNCHANGED <<wargs, datasets, targets, deferred, wenv>>
  /\ UNCHANGED nonWalkerVars

NextWalk ==
  \/ SyncOne
  \/ ListChildren
  \/ PreflightBusy
  \/ PreflightParent
  \/ FirstPass
  \/ DeferredPass

SpecWalk == InitWalk /\ [][NextWalk]_vars

\* ============================================================ two runs
\* sync_dataset run twice on the same flags and datasets.  zfs holds the
\* source's snapshots and bookmarks (guid = name) and the target's snapshots
\* between the runs; a run is taken as a whole, with every command it
\* issues exiting zero, and no interrupted receive is pending.
ZfsNames == SnapNames \cup { PriorSyncSnapName }

\* the order of creation: the sync snapshot of this run is the newest
Age(n) == IF n = NewSyncSnapName THEN PriorSyncSnapName + 1 ELSE n

ZfsGuid == [n \in ZfsNames \cup { NewSyncSnapName } |-> n]

\* name -> guid of the target's snapshots, as `zfs get guid` lists them
TargetGuid(w) ==
  [n \in ZfsNames \cup { NewSyncSnapName } |->
     IF \E s \in w.tgt : s.name = n
     THEN (CHOOSE s \in w.tgt : s.name = n).guid ELSE NoName]

\* what a receive that exits zero leaves on the target: the snapshots the
\* stream carries, under their names
Received(w, req) ==
  LET got == IF req.kind \in { "full" } THEN { req.from.n }
             ELSE IF req.flag = "-I"
             THEN { n \in w.src : Age(req.from.n) < Age(n) /\ Age(n) <= Age(req.to) }
             ELSE { req.to }
  IN [w EXCEPT !.exists = TRUE,
               !.tgt = { s \in @ : s.name \notin got }
                         \cup { Snapshot(n, ZfsGuid[n], Age(n)) : n \in got }]

RECURSIVE ReceivedAll(_, _)
ReceivedAll(w, reqs) ==
  IF reqs = <<>> THEN w
  ELSE ReceivedAll(Received(w, Head(reqs)), Tail(reqs))

\* what `zfs destroy <fs>@a,b,..` leaves
RECURSIVE Pruned(_, _)
Pruned(w, destroys) ==
  IF destroys = <<>> THEN w
  ELSE LET d == Head(destroys)
           gone == { d.x.snaps[i] : i \in DOMAIN d.x.snaps }
       IN Pruned(IF d.x.role = "source"
                 THEN [w EXCEPT !.src = @ \ gone]
                 ELSE [w EXCEPT !.tgt = { s \in @ : s.name \notin gone }],
                 Tail(destroys))

\* a run that stops with an error
Failed == [status |-> "err", created |-> NoName, newest |-> NoName,
           fresh |-> FALSE, matching |-> NoMatching, destroyed |-> FALSE,
           sends |-> <<>>, prunes |-> <<>>]

\* CmdConfig::sync_dataset on the datasets as zfs holds them, every command
\* exiting zero: the snapshot it takes, the match it finds for an existing
\* target, whether it destroys the target, its sends and its prunings.
sync_dataset(a, src, tgt, w) ==
  LET listed == get_snaps(a, w.src, ZfsGuid)
      new == IF ~ a.no_sync_snap THEN new_sync_snap(a) ELSE NoName
      snaps == IF new # NoName THEN Append(listed, fake_newest(new))
               ELSE listed
      newest == newest_sync_snap(snaps)
      oldest == oldest_sync_snap(snaps)
      run(fresh, m, destroyed, sends, prunes) ==
        [status |-> "ok", created |-> new, newest |-> newest,
         fresh |-> fresh, matching |-> m, destroyed |-> destroyed,
         sends |-> sends, prunes |-> prunes]
      \* the stream from the match m and the pruning after it
      streamed(fresh, m, destroyed, first, list) ==
        IF stream_path(a, m) = <<>>
        THEN run(fresh, m, destroyed, first, <<>>)
        ELSE run(fresh, m, destroyed, first \o stream_path(a, m),
                 post(a, new, snaps, list))
      \* the initial send has put the oldest snapshot on the target
      initial(fresh, destroyed, plan) ==
        LET list == <<oldest>>
            again == get_matching_snapshot(snaps, list_to_map(list))
        IN IF plan.after = "done"
           THEN run(fresh, NoMatching, destroyed, plan.pending, <<>>)
           ELSE IF is_none(again) THEN Failed
           ELSE streamed(fresh, again, destroyed, plan.pending, list)
  IN IF newest = NoName THEN Failed
     ELSE IF ~ w.exists
     THEN initial(TRUE, FALSE, create_path(a, src, tgt, newest, oldest))
     ELSE LET list == get_snaps(a, { s.name : s \in w.tgt }, TargetGuid(w))
              matching_snap == get_matching_snapshot(snaps, list_to_map(list))
              bookmark == get_matching_bookmark(
                            list, get_snaps(a, w.bms, ZfsGuid), snaps)
          IN IF ~ is_none(matching_snap)
             THEN streamed(FALSE, matching_snap, FALSE, <<>>, list)
             ELSE IF ~ is_none(bookmark)
             THEN streamed(FALSE, bookmark, FALSE, <<>>, list)
             ELSE IF no_match_decision(a, tgt, w.used).status = "err"
             THEN Failed
             ELSE initial(FALSE, TRUE, redo_path(a, newest, oldest))

\* a send of the run names the sync snapshot --dry-run never took
NamesUntaken(r) ==
  \E i \in DOMAIN r.sends :
    \/ r.sends[i].to = r.created
    \/ r.sends[i].from.k = "snapshot" /\ r.sends[i].from.n = r.created

\* the run goes through: under --dry-run zfs must know every snapshot named
Succeeds(a, r) ==
  /\ r.status = "ok"
  /\ a.dry_run /\ r.created # NoName => ~ NamesUntaken(r)

\* zfs after the run r: the sync snapshot, the target destroyed, the
\* snapshots received, the old sync snapshots pruned
ZfsAfter(a, w, r) ==
  IF a.dry_run THEN w
  ELSE LET taken == IF r.created # NoName
                    THEN [w EXCEPT !.src = @ \cup { r.created }] ELSE w
           cleared == IF r.destroyed
                      THEN [taken EXCEPT !.exists = FALSE, !.tgt = {}]
                      ELSE taken
       IN Pruned(ReceivedAll(cleared, r.sends), r.prunes)

\* time passes: the sync snapshot of the last run gets its place among
\* the snapshots the next run lists
Later(n) == IF n = NewSyncSnapName THEN PriorSyncSnapName ELSE n
ZfsLater(w) ==
  [w EXCEPT !.src = { Later(n) : n \in @ },
            !.tgt = { Snapshot(Later(s.name), Later(s.guid), Later(s.creation))
                        : s \in @ }]

\* what zfs may hold before the first run
ZfsStates ==
  { [src |-> names, bms |-> bms, exists |-> ex, tgt |-> tsnaps, used |-> used] :
      names \in SUBSET SnapNames, bms \in SUBSET SnapNames, ex \in BOOLEAN,
      used \in { MIN_TARGET_USED - 1, MIN_TARGET_USED },
      tsnaps \in { { Snapshot(n, (IF listing[n] = "same" THEN n ELSE ForeignGuid), n)
                       : n \in { x \in SnapNames : listing[x] # "absent" } }
                   : listing \in TargetListings } }

InitTwice ==
  /\ PlannerIdle
  /\ WalkerIdle
  /\ PruneIdle
  /\ SideIdle
  /\ PipeIdle
  /\ job \in { sc \in Scenarios : UnlistedName \notin sc.args.exclude_snaps }
  /\ zfs \in { w \in ZfsStates : ~ w.exists => w.tgt = {} }
  /\ runs = <<>>

\* the first run of sync_dataset, start to end
FirstRun ==
  /\ runs = <<>>
  /\ LET r == sync_dataset(job.args, Fs(SourceFs, job.origins[1]),
                           Fs(job.tfs, job.origins[2]), zfs)
     IN /\ Succeeds(job.args, r)
        /\ runs' = <<r>>
        /\ zfs' = ZfsAfter(job.args, zfs, r)
  /\ UNCHANGED <<job, plannerVars, walkerVars, prune, pipe, sideVars>>

\* the second run, on what the first left
SecondRun ==
  /\ Len(runs) = 1
  /\ LET r == sync_dataset(job.args, Fs(SourceFs, job.origins[1]),
                           Fs(job.tfs, job.origins[2]), ZfsLater(zfs))
     IN /\ Succeeds(job.args, r)
        /\ runs' = Append(runs, r)
        /\ zfs' = ZfsAfter(job.args, ZfsLater(zfs), r)
  /\ UNCHANGED <<job, plannerVars, walkerVars, prune, pipe, sideVars>>

NextTwice ==
  \/ FirstRun
  \/ SecondRun

SpecTwice == InitTwice /\ [][NextTwice]_vars


\* ============================================================== pruning
\* The end of sync_dataset, from the last send on, with catalogs of any
\* length: a catalog holds one ordinary snapshot, n sync snapshots of
\* earlier runs and, possibly, the sync snapshot of this run.
OldSyncSnaps(n) ==
  [i \in 1 .. n |-> Snapshot(MaxSnaps + i, MaxSnaps + i, MaxSnaps + i)]
PruneCatalog(n, new) ==
  <<Snapshot(MaxSnaps, MaxSnaps, MaxSnaps)>> \o OldSyncSnaps(n)
  \o (IF new # NoName THEN <<fake_newest(new)>> ELSE <<>>)

PruneInputs ==
  { [keep_sync_snap |-> k, created |-> c, sends_ok |-> ok,
     source_snaps |-> PruneCatalog(ns, c),
     target_snaps_list |-> PruneCatalog(nt, IF tn THEN c ELSE NoName)] :
      k \in BOOLEAN, c \in { NoName, NewSyncSnapName }, ok \in BOOLEAN,
      ns \in 0 .. MaxOld, nt \in 0 .. MaxOld, tn \in BOOLEAN }

InitPrune ==
  /\ PlannerIdle
  /\ WalkerIdle
  /\ TwiceIdle
  /\ PipeIdle
  /\ SideIdle
  /\ \E in \in PruneInputs : prune = [in |-> in, done |-> FALSE, out |-> <<>>,
                                      result |-> Running]

\* sync_dataset from the sends of the stream path to its end
PruneTail ==
  /\ prune # <<>>
  /\ ~ prune.done
  /\ LET in == prune.in
         destroys == post(in, in.created, in.source_snaps, in.target_snaps_list)
     IN IF ~ in.sends_ok
        THEN prune' = [prune EXCEPT !.done = TRUE,
                                    !.result = Err("Other", MsgPipeline)]
        ELSE \E fails \in SUBSET DOMAIN destroys :
               prune' = [prune EXCEPT !.done = TRUE, !.result = Ok,
                                      !.out = Exited(destroys, fails)]
  /\ UNCHANGED <<plannerVars, walkerVars, twiceVars, pipe, sideVars>>

NextPrune == PruneTail

SpecPrune == InitPrune /\ [][NextPrune]_vars

\* ============================================================ pipelines
\* OptionalCommands::new and build_sync_pipelines for one transfer.
\* A command is the host it is probed on, its binary and what it is for.
Tool(host, base, role) == [host |-> host, base |-> base, role |-> role]
NoTool == Tool("", "", "none")
\* CmdTarget::host: "" for the local machine
HostLocal == ""
HostSource == "src"
HostTarget == "tgt"
\* Cmd::to_local
to_local(cmd) == [cmd EXCEPT !.host = HostLocal]

\* the compression settings told apart: none, one whose decompressor is
\* another binary (gzip, zcat), one whose decompressor is the same (lzop)
CompressChoices == { "none", "gzip", "lzo" }
\* Compress::is_some: `matches!(self, Compress::None)`
is_some(c) == c = "none"
\* Compress::to_cmd
NoCompressCommand == [base |-> "", decompress |-> ""]
Compress_to_cmd(c) ==
  IF c = "gzip" THEN [base |-> "gzip", decompress |-> "zcat"]
  ELSE IF c = "lzo" THEN [base |-> "lzop", decompress |-> "lzop"]
  ELSE NoCompressCommand

\* Args::direct_connection
direct_connection == FALSE
\* Args::optional_enabled
optional_enabled(a, optional) == optional \notin a.skip_optional_commands

\* ConnectionType::new
ConnectionType_new(source_is_remote, target_is_remote) ==
  IF source_is_remote /\ target_is_remote
  THEN (IF direct_connection THEN "RemoteDirect" ELSE "RemoteIndirect")
  ELSE IF source_is_remote THEN "Pull"
  ELSE IF target_is_remote THEN "Push"
  ELSE "Local"

\* ConnectionType::get_relevant_enabled
get_relevant_enabled(conn_type, a) ==
  LET use_pv == a.is_terminal /\ ~ a.quiet
      use_compress == is_some(a.compress)
      when(cond, tags) == IF cond THEN tags ELSE {}
  IN IF conn_type = "Local"
     THEN when(optional_enabled(a, "localpv") /\ use_pv, { "localpv" })
          \cup when(optional_enabled(a, "localmbuffer"), { "localmbuffer" })
     ELSE IF conn_type = "Push"
     THEN when(optional_enabled(a, "localpv") /\ use_pv, { "localpv" })
          \cup when(optional_enabled(a, "localmbuffer"), { "localmbuffer" })
          \cup when(optional_enabled(a, "localcompress")
                    /\ optional_enabled(a, "compress") /\ use_compress,
                    { "localcompress", "targetcompress" })
          \cup when(optional_enabled(a, "targetmbuffer"), { "targetmbuffer" })
     ELSE IF conn_type = "Pull"
     THEN when(optional_enabled(a, "compress")
               /\ optional_enabled(a, "localcompress") /\ use_compress,
               { "sourcecompress", "localcompress" })
          \cup when(optional_enabled(a, "sourcembuffer"), { "sourcembuffer" })
          \cup when(optional_enabled(a, "localmbuffer"), { "localmbuffer" })
          \cup when(optional_enabled(a, "localpv") /\ ~ a.quiet, { "localpv" })
     ELSE IF conn_type = "RemoteDirect"
     THEN when(optional_enabled(a, "sourcepv") /\ use_pv, { "sourcepv" })
          \cup when(optional_enabled(a, "compress") /\ use_compress,
                    { "compress" })
          \cup when(optional_enabled(a, "sourcembuffer"), { "sourcembuffer" })
          \cup when(optional_enabled(a, "targetmbuffer"), { "targetmbuffer" })
          \cup when(optional_enabled(a, "targetpv") /\ use_pv, { "targetpv" })
     ELSE when(optional_enabled(a, "sourcepv") /\ use_pv, { "sourcepv" })
          \cup (IF optional_enabled(a, "compress") /\ use_compress
                THEN { "compress" }
                     \cup when(optional_enabled(a, "localcompress")
                               /\ optional_enabled(a, "localpv") /\ use_pv,
                               { "localcompress", "localpv" })
                ELSE when(optional_enabled(a, "localpv") /\ use_pv,
                          { "localpv" }))
          \cup when(optional_enabled(a, "sourcembuffer"), { "sourcembuffer" })
          \cup when(optional_enabled(a, "targetmbuffer"), { "targetmbuffer" })
          \cup when(optional_enabled(a, "localmbuffer"), { "localmbuffer" })

\* OptionalCommands::inner: the tag -> command map, NoTool where unset
InnerKeys ==
  { "sourcepv", "targetpv", "localpv", "sourcecompress", "targetcompress",
    "localcompress", "localdecompress", "sourcembuffer", "targetmbuffer",
    "localsourcembuffer", "localtargetmbuffer" }
EmptyInner == [k \in InnerKeys |-> NoTool]

\* OptionalCommand
OptionalCommand(cmd, insert_as) == [cmd |-> cmd, insert_as |-> insert_as]

\* OptionalCommands::check: `command -v <base>` on the command's host
check(a, cmd) ==
  a.no_command_checks \/ <<cmd.host, cmd.base>> \notin a.missing

\* the commands of list put into inner under their tags
RECURSIVE InsertAll(_, _)
InsertAll(inner, list) ==
  IF list = <<>> THEN inner
  ELSE InsertAll([inner EXCEPT ![Head(list).insert_as] = to_local(Head(list).cmd)],
                 Tail(list))

\* OptionalCommands::insert_all_checked: all or none
insert_all_checked(inner, a, list) ==
  IF \A i \in DOMAIN list : check(a, list[i].cmd)
  THEN [ok |-> TRUE, inner |-> InsertAll(inner, list)]
  ELSE [ok |-> FALSE, inner |-> inner]

\* OptionalCommands::insert_all_delay_warn: all or none, the warning kept
\* for later
insert_all_delay_warn(inner, a, list) ==
  IF \A i \in DOMAIN list : check(a, list[i].cmd)
  THEN [ok |-> TRUE, inner |-> InsertAll(inner, list)]
  ELSE [ok |-> FALSE, inner |-> inner]

\* the inventory, were both commands inserted when both are there
insert_both_no_warn(inner, a, list) ==
  [ok |-> \E i \in DOMAIN list : check(a, list[i].cmd),
   inner |-> InsertAll(inner, SelectSeq(list, LAMBDA c : check(a, c.cmd)))]

\* OptionalCommands::insert_first_no_warn: the first command that is there
insert_first_no_warn(inner, a, list) ==
  IF check(a, list[1].cmd)
  THEN [ok |-> TRUE, inner |-> InsertAll(inner, <<list[1]>>)]
  ELSE IF check(a, list[2].cmd)
  THEN [ok |-> TRUE, inner |-> InsertAll(inner, <<list[2]>>)]
  ELSE [ok |-> FALSE, inner |-> inner]

\* the commands OptionalCommands::new prepares before its match
HostOf(is_remote, host) == IF is_remote THEN host ELSE HostLocal
local_pv == Tool(HostLocal, "pv", "pv")
source_pv(a) == Tool(HostOf(a.source_remote, HostSource), "pv", "pv")
target_pv(a) == Tool(HostOf(a.target_remote, HostTarget), "pv", "pv")
local_source_mbuffer == Tool(HostLocal, "mbuffer", "source_mbuffer")
local_target_mbuffer == Tool(HostLocal, "mbuffer", "target_mbuffer")
source_mbuffer(a) == Tool(HostOf(a.source_remote, HostSource), "mbuffer", "source_mbuffer")
target_mbuffer(a) == Tool(HostOf(a.target_remote, HostTarget), "mbuffer", "target_mbuffer")
\* Option<Cmd>: NoTool is None
local_compress(a) ==
  IF Compress_to_cmd(a.compress) = NoCompressCommand THEN NoTool
  ELSE Tool(HostLocal, Compress_to_cmd(a.compress).base, "compress")
local_decompress(a) ==
  IF Compress_to_cmd(a.compress) = NoCompressCommand THEN NoTool
  ELSE Tool(HostLocal, Compress_to_cmd(a.compress).decompress, "decompress")
source_compress(a) ==
  IF Compress_to_cmd(a.compress) = NoCompressCommand THEN NoTool
  ELSE Tool(HostOf(a.source_remote, HostSource), Compress_to_cmd(a.compress).base, "compress")
target_decompress(a) ==
  IF Compress_to_cmd(a.compress) = NoCompressCommand THEN NoTool
  ELSE Tool(HostOf(a.target_remote, HostTarget), Compress_to_cmd(a.compress).decompress, "decompress")

\* what OptionalCommands::new returns: Ok(res), or the panic of an
\* unwrap() on None
Built(inner) == [status |-> "ok", inner |-> inner]
Panicked == [status |-> "panic", inner |-> EmptyInner]
\* insert_all_checked when cond holds, on an inventory so far
Checked(cond, inner, a, list) ==
  IF cond THEN insert_all_checked(inner, a, list).inner ELSE inner
\* the unwrap() calls of one array of commands
Unwraps(list) == \A i \in DOMAIN list : list[i].cmd # NoTool

\* OptionalCommands::new, ConnectionType::Local
new_Local(a, enabled) ==
  LET i1 == Checked("localpv" \in enabled, EmptyInner, a,
                    <<OptionalCommand(local_pv, "sourcepv")>>)
      i2 == Checked("localmbuffer" \in enabled, i1, a,
                    <<OptionalCommand(local_source_mbuffer, "sourcembuffer")>>)
  IN Built(i2)

\* OptionalCommands::new, ConnectionType::Push
new_Push(a, enabled) ==
  LET i1 == Checked("localpv" \in enabled, EmptyInner, a,
                    <<OptionalCommand(local_pv, "sourcepv")>>)
      i2 == Checked("localmbuffer" \in enabled, i1, a,
                    <<OptionalCommand(local_source_mbuffer, "sourcembuffer")>>)
      compress == "localcompress" \in enabled /\ "compress" \in enabled
      pair == <<OptionalCommand(local_compress(a), "sourcecompress"),
                OptionalCommand(target_decompress(a), "targetcompress")>>
      i3 == Checked(compress, i2, a, pair)
      i4 == Checked("targetmbuffer" \in enabled, i3, a,
                    <<OptionalCommand(target_mbuffer(a), "targetmbuffer")>>)
  IN IF compress /\ ~ Unwraps(pair) THEN Panicked ELSE Built(i4)

\* OptionalCommands::new, ConnectionType::Pull
new_Pull(a, enabled) ==
  LET compress == "compress" \in enabled /\ "localcompress" \in enabled
      pair == <<OptionalCommand(source_compress(a), "sourcecompress"),
                OptionalCommand(local_decompress(a), "targetcompress")>>
      i1 == Checked(compress, EmptyInner, a, pair)
      i2 == Checked("sourcembuffer" \in enabled, i1, a,
                    <<OptionalCommand(source_mbuffer(a), "sourcembuffer")>>)
      i3 == Checked("localmbuffer" \in enabled, i2, a,
                    <<OptionalCommand(local_target_mbuffer, "targetmbuffer")>>)
      i4 == Checked("localpv" \in enabled, i3, a,
                    <<OptionalCommand(local_pv, "targetpv")>>)
  IN IF compress /\ ~ Unwraps(pair) THEN Panicked ELSE Built(i4)

\* OptionalCommands::new, ConnectionType::RemoteDirect
new_RemoteDirect(a, enabled) ==
  LET pvs == <<OptionalCommand(source_pv(a), "sourcepv"),
               OptionalCommand(target_pv(a), "targetpv")>>
      i1 == IF "sourcepv" \in enabled /\ "targetpv" \in enabled
            THEN insert_first_no_warn(EmptyInner, a, pvs).inner
            ELSE IF "sourcepv" \in enabled
            THEN insert_all_checked(EmptyInner, a, <<pvs[1]>>).inner
            ELSE IF "targetpv" \in enabled
            THEN insert_all_checked(EmptyInner, a, <<pvs[2]>>).inner
            ELSE EmptyInner
      compress == "compress" \in enabled
      pair == <<OptionalCommand(source_compress(a), "sourcecompress"),
                OptionalCommand(target_decompress(a), "targetcompress")>>
      i2 == Checked(compress, i1, a, pair)
      i3 == Checked("sourcembuffer" \in enabled, i2, a,
                    <<OptionalCommand(source_mbuffer(a), "sourcembuffer")>>)
      i4 == Checked("targetmbuffer" \in enabled, i3, a,
                    <<OptionalCommand(target_mbuffer(a), "targetmbuffer")>>)
  IN IF compress /\ ~ Unwraps(pair) THEN Panicked ELSE Built(i4)

\* OptionalCommands::new, ConnectionType::RemoteIndirect: the source pv is
\* tried when the local pv failed or is disabled
source_pv_wanted(got_local_pv, enabled) ==
  ~ got_local_pv /\ "sourcepv" \in enabled
\* OptionalCommands::new, ConnectionType::RemoteIndirect: the condition of
\* the local hop's mbuffer
local_mbuffer_wanted(got_local_pv, enabled) ==
  got_local_pv /\ "localmbuffer" \in enabled

\* OptionalCommands::new, ConnectionType::RemoteIndirect
new_RemoteIndirect(a, enabled) ==
  LET pair == <<OptionalCommand(source_compress(a), "sourcecompress"),
                OptionalCommand(target_decompress(a), "targetcompress")>>
      r1 == IF "compress" \in enabled
            THEN insert_all_checked(EmptyInner, a, pair)
            ELSE [ok |-> FALSE, inner |-> EmptyInner]
      compress == r1.ok
      triple == <<OptionalCommand(local_pv, "localpv"),
                  OptionalCommand(local_compress(a), "localcompress"),
                  OptionalCommand(local_decompress(a), "localdecompress")>>
      r2 == IF compress
            THEN (IF "localpv" \in enabled /\ "localcompress" \in enabled
                  THEN insert_all_delay_warn(r1.inner, a, triple)
                  ELSE [ok |-> FALSE, inner |-> r1.inner])
            ELSE IF "localpv" \in enabled
            THEN insert_all_delay_warn(r1.inner, a, <<triple[1]>>)
            ELSE [ok |-> FALSE, inner |-> r1.inner]
      got_local_pv == r2.ok
      i3 == IF source_pv_wanted(got_local_pv, enabled)
            THEN insert_all_delay_warn(r2.inner, a,
                   <<OptionalCommand(source_pv(a), "sourcepv")>>).inner
            ELSE r2.inner
      i4 == Checked("sourcembuffer" \in enabled, i3, a,
                    <<OptionalCommand(source_mbuffer(a), "sourcembuffer")>>)
      i5 == Checked("targetmbuffer" \in enabled, i4, a,
                    <<OptionalCommand(target_mbuffer(a), "targetmbuffer")>>)
      r6 == IF local_mbuffer_wanted(got_local_pv, enabled)
            THEN insert_all_checked(i5, a,
                   <<OptionalCommand(local_source_mbuffer, "localsourcembuffer")>>)
            ELSE [ok |-> FALSE, inner |-> i5]
      i7 == IF r6.ok
            THEN [r6.inner EXCEPT !["localtargetmbuffer"] = local_target_mbuffer]
            ELSE r6.inner
  IN IF "compress" \in enabled /\ ~ Unwraps(pair) THEN Panicked
     ELSE IF compress /\ "localpv" \in enabled /\ "localcompress" \in enabled
             /\ ~ Unwraps(triple)
     THEN Panicked
     ELSE Built(i7)

\* OptionalCommands::new: the match on the connection type
new_of(conn_type, a) ==
  LET enabled == get_relevant_enabled(conn_type, a)
      res == IF conn_type = "Local" THEN new_Local(a, enabled)
             ELSE IF conn_type = "Push" THEN new_Push(a, enabled)
             ELSE IF conn_type = "Pull" THEN new_Pull(a, enabled)
             ELSE IF conn_type = "RemoteDirect" THEN new_RemoteDirect(a, enabled)
             ELSE new_RemoteIndirect(a, enabled)
  IN [status |-> res.status, conn_type |-> conn_type, inner |-> res.inner]

\* OptionalCommands::new
new(a) == new_of(ConnectionType_new(a.source_remote, a.target_remote), a)

\* the `zfs send` and `zfs receive` commands build_sync_pipelines is given
send_cmd == Tool(HostLocal, "zfs", "send")
recv_cmd == Tool(HostLocal, "zfs", "recv")
\* Pipeline; NoPipeline is None
Pipeline(host, use_terminal_if_ssh, list) ==
  [target |-> host, use_terminal_if_ssh |-> use_terminal_if_ssh, cmds |-> list]
NoPipeline == Pipeline("none", FALSE, <<>>)
\* into_iter().flatten().collect()
Flatten(list) == SelectSeq(list, LAMBDA c : c # NoTool)
\* Pipeline::from: None if the input is empty
Pipeline_from(host, list) ==
  IF list = <<>> THEN NoPipeline ELSE Pipeline(host, FALSE, list)
\* Pipeline::use_terminal_if_ssh, on an Option<Pipeline>
use_terminal_if_ssh(p, value) ==
  IF p = NoPipeline THEN p ELSE [p EXCEPT !.use_terminal_if_ssh = value]
\* OptionalCommands::get_pv
get_pv(inner, pv_key) == inner[pv_key]

\* the source hop, were the buffer put before the progress bar
source_stages_swapped(inner) ==
  <<send_cmd, inner["sourcembuffer"], get_pv(inner, "sourcepv"),
    inner["sourcecompress"]>>
\* build_sync_pipelines: the source hop with a progress bar
source_stages(inner) ==
  <<send_cmd, get_pv(inner, "sourcepv"), inner["sourcecompress"],
    inner["sourcembuffer"]>>

\* OptionalCommands::build_sync_pipelines
build_sync_pipelines(a, res) ==
  LET inner == res.inner
      source_host == HostOf(a.source_remote, HostSource)
      target_host == HostOf(a.target_remote, HostTarget)
      source_terminal == get_pv(inner, "sourcepv") # NoTool
      target_terminal == get_pv(inner, "targetpv") # NoTool
  IN IF res.conn_type = "Local"
     THEN <<Pipeline_from(source_host,
              Flatten(<<send_cmd, get_pv(inner, "sourcepv"),
                        inner["sourcembuffer"], recv_cmd>>)),
            NoPipeline, NoPipeline>>
     ELSE IF res.conn_type = "Push"
     THEN <<use_terminal_if_ssh(
              Pipeline_from(source_host, Flatten(source_stages(inner))),
              source_terminal),
            NoPipeline,
            Pipeline_from(target_host,
              Flatten(<<inner["targetcompress"], inner["targetmbuffer"],
                        recv_cmd>>))>>
     ELSE IF res.conn_type = "Pull"
     THEN <<Pipeline_from(source_host,
              Flatten(<<send_cmd, inner["sourcecompress"],
                        inner["sourcembuffer"]>>)),
            NoPipeline,
            use_terminal_if_ssh(
              Pipeline_from(target_host,
                Flatten(<<inner["targetcompress"], inner["targetmbuffer"],
                          get_pv(inner, "targetpv"), recv_cmd>>)),
              target_terminal)>>
     ELSE IF res.conn_type = "RemoteDirect"
     THEN <<use_terminal_if_ssh(
              Pipeline_from(source_host, Flatten(source_stages(inner))),
              source_terminal),
            NoPipeline,
            use_terminal_if_ssh(
              Pipeline_from(target_host,
                Flatten(<<inner["targetcompress"], inner["targetmbuffer"],
                          get_pv(inner, "targetpv"), recv_cmd>>)),
              target_terminal)>>
     ELSE <<use_terminal_if_ssh(
              Pipeline_from(source_host, Flatten(source_stages(inner))),
              source_terminal),
            Pipeline_from(HostLocal,
              Flatten(<<inner["localtargetmbuffer"], inner["localdecompress"],
                        get_pv(inner, "localpv"), inner["localcompress"],
                        inner["localsourcembuffer"]>>)),
            Pipeline_from(target_host,
              Flatten(<<inner["targetcompress"], inner["targetmbuffer"],
                        recv_cmd>>))>>

\* Pipeline::to_cmd: the program run, whether ssh is given -t, and the
\* stages it runs
Pipeline_to_cmd(p) ==
  IF p.target = HostLocal
  THEN [program |-> IF Len(p.cmds) = 1 THEN p.cmds[1].base ELSE "sh",
        tty |-> FALSE, host |-> HostLocal, stages |-> p.cmds]
  ELSE [program |-> "ssh", tty |-> p.use_terminal_if_ssh, host |-> p.target,
        stages |-> p.cmds]

\* ------------------------------------------------ one transfer, step by step
\* the optional commands --skip-optional-commands accepts
SkipTokens ==
  { "sourcepv", "localpv", "targetpv", "compress", "localcompress",
    "sourcembuffer", "targetmbuffer", "localmbuffer" }
\* the binaries a probe may miss, and the hosts it may miss them on
Binaries == { "pv", "mbuffer", "gzip", "zcat", "lzop" }
ProbeHosts == { HostLocal, HostSource, HostTarget }
\* what may be switched off or missing: a skipped token, or a binary on a host
Offs ==
  { <<"skip", t, "">> : t \in SkipTokens }
  \cup { <<"missing", h, b>> : h \in ProbeHosts, b \in Binaries }
\* the subsets of S with at most n members
RECURSIVE UpTo(_, _)
UpTo(S, n) ==
  IF n = 0 THEN { {} }
  ELSE LET smaller == UpTo(S, n - 1)
       IN smaller \cup { s \cup { x } : s \in smaller, x \in S }

\* the flags, the hosts and the probe results of one transfer
PipeInputs ==
  { [source_remote |-> sr, target_remote |-> tr, compress |-> c,
     skip_optional_commands |-> { o[2] : o \in { x \in off : x[1] = "skip" } },
     missing |-> { <<o[2], o[3]>> : o \in { x \in off : x[1] = "missing" } },
     is_terminal |-> term, quiet |-> q, no_command_checks |-> ncc] :
      sr \in BOOLEAN, tr \in BOOLEAN, c \in CompressChoices,
      off \in UpTo(Offs, MaxOff), term \in BOOLEAN, q \in BOOLEAN,
      ncc \in BOOLEAN }

\* no Command: the pipeline is None
NoCommand == [program |-> "none", tty |-> FALSE, host |-> "none", stages |-> <<>>]
NoInventory == [status |-> "none", conn_type |-> "none", inner |-> EmptyInner]
NoPipelines == <<NoPipeline, NoPipeline, NoPipeline>>

InitPipe ==
  /\ PlannerIdle
  /\ WalkerIdle
  /\ TwiceIdle
  /\ PruneIdle
  /\ SideIdle
  /\ \E in \in PipeInputs :
       pipe = [in |-> in, pc |-> "new", res |-> NoInventory,
               pipelines |-> NoPipelines, run |-> <<>>]

\* main: OptionalCommands::new, once zfs and ps are found
NewInventory ==
  /\ pipe # <<>>
  /\ pipe.pc = "new"
  /\ LET res == new(pipe.in)
     IN pipe' = [pipe EXCEPT !.res = res,
                             !.pc = IF res.status = "ok" THEN "build"
                                    ELSE "panicked"]
  /\ UNCHANGED <<plannerVars, walkerVars, twiceVars, prune, sideVars>>

\* run_sync_cmd: build_sync_pipelines on the send and the receive command
BuildPipelines ==
  /\ pipe # <<>>
  /\ pipe.pc = "build"
  /\ pipe' = [pipe EXCEPT !.pipelines = build_sync_pipelines(pipe.in, pipe.res),
                          !.pc = "run"]
  /\ UNCHANGED <<plannerVars, walkerVars, twiceVars, prune, sideVars>>

\* run_sync_pipelines: the command of each pipeline there is
RunPipelines ==
  /\ pipe # <<>>
  /\ pipe.pc = "run"
  /\ pipe' = [pipe EXCEPT
                !.run = [i \in 1 .. 3 |->
                           IF pipe.pipelines[i] = NoPipeline THEN NoCommand
                           ELSE Pipeline_to_cmd(pipe.pipelines[i])],
                !.pc = "done"]
  /\ UNCHANGED <<plannerVars, walkerVars, twiceVars, prune, sideVars>>

NextPipe == NewInventory \/ BuildPipelines \/ RunPipelines

SpecPipe == InitPipe /\ [][NextPipe]_vars

\* ------------------------------------------- every arm of the two matches
\* OptionalCommands::new and build_sync_pipelines as functions of the
\* connection type: between two remote hosts both the RemoteIndirect and the
\* RemoteDirect arm are applied, whichever Args::direct_connection selects.
Arms(a) ==
  { ConnectionType_new(a.source_remote, a.target_remote) }
  \cup (IF a.source_remote /\ a.target_remote THEN { "RemoteDirect" } ELSE {})

InitArms ==
  /\ PlannerIdle
  /\ WalkerIdle
  /\ TwiceIdle
  /\ PruneIdle
  /\ SideIdle
  /\ \E in \in PipeInputs :
       pipe = [in |-> in, pc |-> "new", res |-> NoInventory,
               pipelines |-> NoPipelines, run |-> <<>>]

\* OptionalCommands::new from its match on
NewArm ==
  /\ pipe # <<>>
  /\ pipe.pc = "new"
  /\ \E conn_type \in Arms(pipe.in) :
       LET res == new_of(conn_type, pipe.in)
       IN pipe' = [pipe EXCEPT !.res = res,
                               !.pc = IF res.status = "ok" THEN "build"
                                      ELSE "panicked"]
  /\ UNCHANGED <<plannerVars, walkerVars, twiceVars, prune, sideVars>>

NextArms == NewArm \/ BuildPipelines \/ RunPipelines

SpecArms == InitArms /\ [][NextArms]_vars
\* ================================================= send and receive options
\* Strings are sequences of characters.  The strings of length up to n over A:
Strings(A, n) == UNION { [1 .. k -> A] : k \in 0 .. n }
\* str::split(' '): the pieces between the separators, empty ones included
RECURSIVE Split(_, _)
Split(s, sep) ==
  IF \A i \in DOMAIN s : s[i] # sep THEN <<s>>
  ELSE LET i == CHOOSE j \in DOMAIN s :
                  s[j] = sep /\ \A k \in 1 .. j - 1 : s[k] # sep
       IN <<SubSeq(s, 1, i - 1)>> \o Split(SubSeq(s, i + 1, Len(s)), sep)

\* OptionsLine
OptionsLine(option, line) == [option |-> option, line |-> line]
\* Opts::try_from_str: the characters of one piece, read as options
RECURSIVE ParseChars(_, _, _)
ParseChars(s, last_option, options) ==
  IF s = <<>> THEN [ok |-> TRUE, last_option |-> last_option, options |-> options]
  ELSE IF last_option # "" THEN [ok |-> FALSE, last_option |-> "", options |-> <<>>]
  ELSE IF Head(s) \in { "o", "x", "X" } THEN ParseChars(Tail(s), Head(s), options)
  ELSE ParseChars(Tail(s), "",
                  Append(options, OptionsLine(Head(s), <<"-", Head(s)>>)))
\* Opts::try_from_str: the pieces in turn, an option's value after o, x or X
RECURSIVE ParsePieces(_, _, _)
ParsePieces(pieces, last_option, options) ==
  IF pieces = <<>> THEN [ok |-> last_option = "", options |-> options]
  ELSE IF Head(pieces) = <<>> THEN ParsePieces(Tail(pieces), last_option, options)
  ELSE IF last_option = ""
  THEN LET r == ParseChars(Head(pieces), "", options)
       IN IF r.ok THEN ParsePieces(Tail(pieces), r.last_option, r.options)
          ELSE [ok |-> FALSE, options |-> <<>>]
  ELSE ParsePieces(Tail(pieces), "",
         Append(options,
                OptionsLine(last_option, <<"-", last_option, " ">> \o Head(pieces))))
\* Opts::try_from_str
try_from_str(value) == ParsePieces(Split(value, " "), "", <<>>)

\* the options of a list, were none of them filtered out
filter_none(options, allowed) == [i \in DOMAIN options |-> options[i].line]
\* Opts::filter_allowed
filter_allowed(options, allowed) ==
  LET kept == SelectSeq(options, LAMBDA o : o.option \in allowed)
  IN [i \in DOMAIN kept |-> kept[i].line]

\* CmdConfig::run_sync_cmd: the options of the send and of the receive
run_sync_cmd_options(a, send_from) ==
  [send |-> IF send_from.flag = "-t"
            THEN filter_allowed(a.send_options, { "P", "V", "e", "v" })
            ELSE IF Contains(send_from.name, "#")
            THEN filter_allowed(a.send_options, { "L", "V", "c", "e", "w" })
            ELSE filter_allowed(a.send_options,
                   { "L", "P", "V", "R", "X", "b", "c", "e", "h", "p", "s",
                     "v", "w" }),
   recv |-> filter_allowed(a.recv_options, { "h", "o", "x", "u", "v" })
            \o (IF ~ a.no_resume THEN << <<"-", "s">> >> ELSE <<>>)
            \o (IF ~ a.no_rollback THEN << <<"-", "F">> >> ELSE <<>>)]

\* the characters an option string is made of here
OptChars == { "P", "R", "c", "o", "s", "F", " " }
\* what run_sync_cmd is given to send from, by the function that calls it
SendFroms ==
  { [by |-> "sync_resume", flag |-> "-t", name |-> <<"1", "-", "c">>],
    [by |-> "sync_clone", flag |-> "-i", name |-> <<"p", "@", "s">>],
    [by |-> "sync_full", flag |-> "", name |-> <<"p", "@", "s">>],
    [by |-> "sync_intermidiate bookmark", flag |-> "-i", name |-> <<"#", "s">>],
    [by |-> "sync_intermidiate snapshot", flag |-> "-i", name |-> <<"@", "s">>],
    [by |-> "sync_incremental", flag |-> "-I", name |-> <<"s">>] }

InitOpts ==
  /\ PlannerIdle
  /\ WalkerIdle
  /\ TwiceIdle
  /\ PruneIdle
  /\ PipeIdle
  /\ SshIdle
  /\ ProcsIdle
  /\ \E o \in Strings(OptChars, MaxOptLen), given \in { "send", "recv" },
        nr \in BOOLEAN, nb \in BOOLEAN, sf \in SendFroms :
       calc = [f |-> "run_sync_cmd", pc |-> "args",
               in |-> [send_options |-> IF given = "send" THEN o ELSE <<>>,
                       recv_options |-> IF given = "recv" THEN o ELSE <<>>,
                       no_resume |-> nr, no_rollback |-> nb, send_from |-> sf],
               parsed |-> <<>>, out |-> <<>>]

\* Args: --send-options and --recv-options are parsed, or the run is refused
ParseOptions ==
  /\ calc # <<>> /\ calc.f = "run_sync_cmd" /\ calc.pc = "args"
  /\ LET s == try_from_str(calc.in.send_options)
         r == try_from_str(calc.in.recv_options)
     IN IF s.ok /\ r.ok
        THEN calc' = [calc EXCEPT !.pc = "send",
                        !.parsed = [send_options |-> s.options,
                                    recv_options |-> r.options,
                                    no_resume |-> calc.in.no_resume,
                                    no_rollback |-> calc.in.no_rollback]]
        ELSE calc' = [calc EXCEPT !.pc = "refused"]
  /\ UNCHANGED <<mainVars, ssh, procs>>

\* CmdConfig::run_sync_cmd up to the send and the receive command
SendRecvOptions ==
  /\ calc # <<>> /\ calc.f = "run_sync_cmd" /\ calc.pc = "send"
  /\ calc' = [calc EXCEPT !.pc = "done",
                !.out = run_sync_cmd_options(calc.parsed, calc.in.send_from)]
  /\ UNCHANGED <<mainVars, ssh, procs>>

NextOpts == ParseOptions \/ SendRecvOptions

SpecOpts == InitOpts /\ [][NextOpts]_vars

\* ============================================================= send size
\* char::is_ascii_digit, char::is_whitespace on the characters used here
Digits == { "0", "4", "9" }
is_ascii_digit(c) == c \in Digits
is_whitespace(c) == c \in { " ", "\n" }
\* str::trim
RECURSIVE trim_start(_)
trim_start(s) ==
  IF s # <<>> /\ is_whitespace(Head(s)) THEN trim_start(Tail(s)) ELSE s
RECURSIVE trim_end(_)
trim_end(s) ==
  IF s # <<>> /\ is_whitespace(s[Len(s)]) THEN trim_end(SubSeq(s, 1, Len(s) - 1))
  ELSE s
trim(s) == trim_end(trim_start(s))
\* str::lines().last(): None (NoLine) when there is no line
NoLine == <<"none">>
lines_last(s) ==
  IF s = <<>> THEN NoLine
  ELSE LET pieces == Split(s, "\n")
           \* a final line terminator ends the last line, it begins none
           whole == IF pieces[Len(pieces)] = <<>>
                    THEN SubSeq(pieces, 1, Len(pieces) - 1) ELSE pieces
       IN whole[Len(whole)]
\* str::rsplit_terminator(|c| !c.is_ascii_digit()).next(): the last piece
\* between non-digits, a trailing empty piece left out
rsplit_terminator_next(s) ==
  LET body == IF s # <<>> /\ ~ is_ascii_digit(s[Len(s)])
              THEN SubSeq(s, 1, Len(s) - 1) ELSE s
      cuts == { i \in DOMAIN body : ~ is_ascii_digit(body[i]) }
      from == IF cuts = {} THEN 1
              ELSE 1 + CHOOSE i \in cuts : \A j \in cuts : j <= i
  IN IF s = <<>> THEN NoLine ELSE SubSeq(body, from, Len(body))
\* str::parse::<u64>: -1 for Err (the strings here are too short to overflow)
DigitValue(c) == IF c = "0" THEN 0 ELSE IF c = "4" THEN 4 ELSE 9
RECURSIVE ParseDigits(_, _)
ParseDigits(s, acc) ==
  IF s = <<>> THEN acc ELSE ParseDigits(Tail(s), 10 * acc + DigitValue(Head(s)))
parse_u64(s) ==
  IF s = <<>> \/ \E i \in DOMAIN s : ~ is_ascii_digit(s[i]) THEN -1
  ELSE ParseDigits(s, 0)

\* CmdConfig::get_send_size: the size read off the output of `zfs send -nvP`
send_size(stdout) ==
  LET line == lines_last(trim(stdout))
      piece == IF line = NoLine THEN NoLine ELSE rsplit_terminator_next(line)
      n == IF piece = NoLine THEN -1 ELSE parse_u64(trim(piece))
  IN IF n = -1 THEN 0
     ELSE IF n < MIN_SEND_SIZE THEN MIN_SEND_SIZE ELSE n

\* OptionalCommands::get_pv: the arguments pv is given for a size
pv_args(pv_size) == IF pv_size # 0 THEN <<"-s", pv_size>> ELSE <<>>

\* the characters of the output of `zfs send -nvP` here
OutChars == Digits \cup { "K", " ", "\n" }

InitSize ==
  /\ PlannerIdle
  /\ WalkerIdle
  /\ TwiceIdle
  /\ PruneIdle
  /\ PipeIdle
  /\ SshIdle
  /\ ProcsIdle
  /\ \E ok \in BOOLEAN, stdout \in Strings(OutChars, MaxOut) :
       calc = [f |-> "get_send_size", pc |-> "estimate",
               in |-> [success |-> ok, stdout |-> stdout],
               size |-> -1, pv |-> <<>>]

\* CmdConfig::get_send_size
GetSendSize ==
  /\ calc # <<>> /\ calc.f = "get_send_size" /\ calc.pc = "estimate"
  /\ calc' = IF calc.in.success
             THEN [calc EXCEPT !.pc = "send", !.size = send_size(calc.in.stdout)]
             ELSE [calc EXCEPT !.pc = "failed"]
  /\ UNCHANGED <<mainVars, ssh, procs>>

\* CmdConfig::run_sync_cmd: the size is handed to pv
PvSize ==
  /\ calc # <<>> /\ calc.f = "get_send_size" /\ calc.pc = "send"
  /\ calc' = [calc EXCEPT !.pc = "done", !.pv = pv_args(calc.size)]
  /\ UNCHANGED <<mainVars, ssh, procs>>

NextSize == GetSendSize \/ PvSize

SpecSize == InitSize /\ [][NextSize]_vars

\* ======================================================== dataset names
\* Option<&str>: NoHost is None
NoHost == <<"none">>
\* the host and name, were the string split at its last ':'
RECURSIVE split_host_at_last_colon(_, _)
split_host_at_last_colon(host, pos) ==
  IF \A i \in DOMAIN host : host[i] # ":" THEN [host |-> NoHost, fs |-> host]
  ELSE LET i == CHOOSE j \in DOMAIN host :
                  host[j] = ":" /\ \A k \in j + 1 .. Len(host) : host[k] # ":"
       IN [host |-> SubSeq(host, 1, i - 1), fs |-> SubSeq(host, i + 1, Len(host))]
\* fs.rs split_host_at_colon: the characters from pos on, in turn
RECURSIVE split_host_at_colon(_, _)
split_host_at_colon(host, pos) ==
  IF pos > Len(host) THEN [host |-> NoHost, fs |-> host]
  ELSE IF host[pos] = "/" THEN [host |-> NoHost, fs |-> host]
  ELSE IF host[pos] = ":"
  THEN [host |-> SubSeq(host, 1, pos - 1), fs |-> SubSeq(host, pos + 1, Len(host))]
  ELSE split_host_at_colon(host, pos + 1)
\* Fs::new: the host and the dataset name
Fs_new(host_opt, fs) ==
  IF host_opt # NoHost
  THEN [host |-> IF host_opt = <<>> THEN NoHost ELSE host_opt, fs |-> fs]
  ELSE split_host_at_colon(fs, 1)
\* GetSsh::new: the host and the dataset name
GetSsh_new(host_opt, fs) ==
  IF host_opt # NoHost
  THEN [host |-> IF host_opt = <<>> THEN NoHost ELSE host_opt, fs |-> fs]
  ELSE LET found == { i \in DOMAIN fs : fs[i] \in { ":", "/" } }
           idx == CHOOSE i \in found : \A j \in found : i <= j
       IN IF found # {} /\ fs[idx] = ":"
          THEN [host |-> SubSeq(fs, 1, idx - 1), fs |-> SubSeq(fs, idx + 1, Len(fs))]
          ELSE [host |-> NoHost, fs |-> fs]

\* the characters of a dataset argument here, and the host overrides
FsChars == { "h", "@", ":", "/" }
HostOpts == { NoHost, <<>>, <<"h">>, <<"u", "@", "h">>, <<"h", ":">> }

InitFs ==
  /\ PlannerIdle
  /\ WalkerIdle
  /\ TwiceIdle
  /\ PruneIdle
  /\ PipeIdle
  /\ SshIdle
  /\ ProcsIdle
  /\ \E h \in HostOpts, fs \in Strings(FsChars, MaxFsLen) :
       calc = [f |-> "Fs::new", pc |-> "args", in |-> [host_opt |-> h, fs |-> fs],
               out |-> [host |-> NoHost, fs |-> <<>>],
               ssh |-> [host |-> NoHost, fs |-> <<>>]]

\* main: Fs::new on a dataset argument and its host option
ParseFs ==
  /\ calc # <<>> /\ calc.f = "Fs::new" /\ calc.pc = "args"
  /\ calc' = [calc EXCEPT !.pc = "done",
                !.out = Fs_new(calc.in.host_opt, calc.in.fs),
                !.ssh = GetSsh_new(calc.in.host_opt, calc.in.fs)]
  /\ UNCHANGED <<mainVars, ssh, procs>>

NextFs == ParseFs

SpecFs == InitFs /\ [][NextFs]_vars

\* ======================================================== shell escaping
\* the characters that make escape_str quote its argument
EscapeSpecials ==
  { "#", "'", "\"", " ", "\t", "\n", "\r", "|", "&", ";", "<", ">", "(", ")",
    "$", "*", "?", "[", "]", "^", "!", "~", "%", "{", "}" }
\* the body of the quoted form: each ' becomes '\''
RECURSIVE escape_quoted(_)
escape_quoted(s) ==
  IF s = <<>> THEN <<>>
  ELSE (IF Head(s) = "'" THEN <<"'", "\\", "'", "'">> ELSE <<Head(s)>>)
       \o escape_quoted(Tail(s))
\* cmd.rs escape_str
escape_str(s) ==
  IF \E i \in DOMAIN s : s[i] \in EscapeSpecials
  THEN <<"'">> \o escape_quoted(s) \o <<"'">>
  ELSE s
\* the backquote character (it cannot be written in a string here)
Backquote == "backquote"
\* what an unquoted backquote leaves in a word: the output of a command
Substituted == "<command substitution>"
\* the words a POSIX shell reads from s (quote removal and field splitting):
\* q is "inside single quotes", st is "a word has begun", w the word so far
RECURSIVE sh_words(_, _, _, _, _, _)
sh_words(s, i, q, st, w, ws) ==
  IF i > Len(s) THEN (IF st THEN Append(ws, w) ELSE ws)
  ELSE IF q
  THEN IF s[i] = "'" THEN sh_words(s, i + 1, FALSE, TRUE, w, ws)
       ELSE sh_words(s, i + 1, TRUE, TRUE, Append(w, s[i]), ws)
  ELSE IF s[i] = "'" THEN sh_words(s, i + 1, TRUE, TRUE, w, ws)
  ELSE IF s[i] = "\\"
  THEN IF i < Len(s) THEN sh_words(s, i + 2, FALSE, TRUE, Append(w, s[i + 1]), ws)
       ELSE sh_words(s, i + 1, FALSE, TRUE, Append(w, "\\"), ws)
  ELSE IF s[i] = Backquote THEN sh_words(s, i + 1, FALSE, TRUE, Append(w, Substituted), ws)
  ELSE IF s[i] \in { " ", "\t", "\n" }
  THEN sh_words(s, i + 1, FALSE, FALSE, <<>>, IF st THEN Append(ws, w) ELSE ws)
  ELSE sh_words(s, i + 1, FALSE, TRUE, Append(w, s[i]), ws)

\* the characters of an argument here
ArgChars == { "a", "'", "\\", Backquote, " " }

InitEscape ==
  /\ PlannerIdle
  /\ WalkerIdle
  /\ TwiceIdle
  /\ PruneIdle
  /\ PipeIdle
  /\ SshIdle
  /\ ProcsIdle
  /\ \E a \in Strings(ArgChars, MaxArgLen) :
       calc = [f |-> "escape_str", pc |-> "arg", in |-> a, out |-> <<>>, words |-> <<>>]

\* Cmd::to_cmd for a remote target: the argument handed to ssh
EscapeArg ==
  /\ calc # <<>> /\ calc.f = "escape_str" /\ calc.pc = "arg"
  /\ calc' = [calc EXCEPT !.pc = "escaped", !.out = escape_str(calc.in)]
  /\ UNCHANGED <<mainVars, ssh, procs>>

\* the remote shell reads the argument
ShellReads ==
  /\ calc # <<>> /\ calc.f = "escape_str" /\ calc.pc = "escaped"
  /\ calc' = [calc EXCEPT !.pc = "read", !.words = sh_words(calc.out, 1, FALSE, FALSE, <<>>, <<>>)]
  /\ UNCHANGED <<mainVars, ssh, procs>>

NextEscape == EscapeArg \/ ShellReads

SpecEscape == InitEscape /\ [][NextEscape]_vars

\* ============================================================ ssh masters
\* Option<String>: NoControl is None
NoControl == <<"none">>
\* CmdTarget::is_remote and CmdTarget::host of a target built from Fs::host
is_remote(h) == h # NoHost
CmdTarget_host(h) == IF h = NoHost THEN <<>> ELSE h
is_ascii_alphanumeric(c) == c \in { "a", "b", "u" }
\* make_control host_sanitized: '@' becomes '-', other characters that are
\* neither alphanumeric nor '-' are dropped, at most SANITIZED_MAX are kept
RECURSIVE host_sanitized(_, _)
host_sanitized(h, kept) ==
  IF h = <<>> \/ kept = SANITIZED_MAX THEN <<>>
  ELSE LET c == IF Head(h) = "@" THEN "-" ELSE Head(h)
       IN IF is_ascii_alphanumeric(c) \/ c = "-"
          THEN <<c>> \o host_sanitized(Tail(h), kept + 1)
          ELSE host_sanitized(Tail(h), kept)
\* the socket path of make_control (the time and the process id are the same
\* for every master of a run)
control_path(h, rand) == <<host_sanitized(h, 0), rand>>
\* a command of the run: what, on which host, through which socket, and
\* whether it exited zero
Ran(op, h, control, ok) == [op |-> op, host |-> h, control |-> control, ok |-> ok]
\* CmdTarget::make_control: started and echoed are whether `ssh -M ... exit`
\* and the echo test exit zero
make_control(h, rand, started, echoed) ==
  IF ~ is_remote(h) THEN [ok |-> TRUE, control |-> NoControl, ran |-> <<>>]
  ELSE IF ~ started
  THEN [ok |-> FALSE, control |-> NoControl,
        ran |-> <<Ran("master", h, control_path(h, rand), FALSE)>>]
  ELSE [ok |-> echoed,
        control |-> IF echoed THEN control_path(h, rand) ELSE NoControl,
        ran |-> <<Ran("master", h, control_path(h, rand), TRUE),
                  Ran("echo", h, control_path(h, rand), echoed)>>]
\* CmdTarget::set_control
set_control(h, old, control) == IF is_remote(h) THEN control ELSE old
\* CmdConfig::check_ssh_if_needed: o gives the outcome of each command
check_ssh_if_needed(sh, th, no_command_checks, o) ==
  LET probe == (is_remote(sh) \/ is_remote(th)) /\ ~ no_command_checks
      probed == IF probe THEN <<Ran("check ssh", NoHost, NoControl, o.ssh_exists)>>
                ELSE <<>>
      s == make_control(sh, o.rand_s, o.start_s, o.echo_s)
      t == make_control(th, o.rand_t, o.start_t, o.echo_t)
  IN IF probe /\ ~ o.ssh_exists
     THEN [ok |-> FALSE, source_control |-> NoControl, target_control |-> NoControl,
           ran |-> probed]
     ELSE IF ~ (is_remote(sh) \/ is_remote(th))
     THEN [ok |-> TRUE, source_control |-> NoControl, target_control |-> NoControl,
           ran |-> probed]
     ELSE IF CmdTarget_host(sh) = CmdTarget_host(th)
     THEN [ok |-> s.ok, source_control |-> s.control,
           target_control |-> IF s.ok THEN set_control(th, NoControl, s.control)
                              ELSE NoControl,
           ran |-> probed \o s.ran]
     ELSE IF ~ s.ok
     THEN [ok |-> FALSE, source_control |-> NoControl, target_control |-> NoControl,
           ran |-> probed \o s.ran]
     ELSE [ok |-> t.ok, source_control |-> s.control, target_control |-> t.control,
           ran |-> probed \o s.ran \o t.ran]
\* CmdTarget::destroy_control: exited is "ok", "nonzero" or "io error"
destroy_control(h, control, exited) ==
  IF ~ is_remote(h) \/ control = NoControl THEN [ok |-> TRUE, ran |-> <<>>]
  ELSE [ok |-> exited = "ok", ran |-> <<Ran("exit", h, control, exited = "ok")>>]
\* CmdConfig::destroy_ssh_masters
destroy_ssh_masters(sh, th, source_control, target_control, o) ==
  LET s == destroy_control(sh, source_control, o.exit_s)
      t == destroy_control(th, target_control, o.exit_t)
  IN IF ~ (is_remote(sh) \/ is_remote(th)) THEN [ok |-> TRUE, ran |-> <<>>]
     ELSE IF CmdTarget_host(sh) = CmdTarget_host(th) THEN s
     ELSE IF ~ s.ok THEN s
     ELSE [ok |-> t.ok, ran |-> s.ran \o t.ran]
\* CmdConfig::new: the probes of zfs on the source and of ps and zfs on the
\* target, up to the first that fails
cmd_config_probes(sh, th, source_control, target_control, no_command_checks, o) ==
  LET p1 == Ran("check zfs", sh, source_control, o.source_zfs)
      p2 == Ran("check ps", th, target_control, o.target_ps)
      p3 == Ran("check zfs", th, target_control, o.target_zfs)
  IN IF no_command_checks THEN [ok |-> TRUE, ran |-> <<>>]
     ELSE IF ~ o.source_zfs THEN [ok |-> FALSE, ran |-> <<p1>>]
     ELSE IF ~ o.target_ps THEN [ok |-> FALSE, ran |-> <<p1, p2>>]
     ELSE [ok |-> o.target_zfs, ran |-> <<p1, p2, p3>>]

\* the hosts of a run: local, the empty host of `:pool/fs`, and two others
SshHosts == { NoHost, <<>>, <<"a">>, <<"u", "@", "a">> }
\* the random part of a socket path
Rands == 0 .. MaxRand - 1
\* the outcomes of the commands of check_ssh_if_needed
SetupOutcomes ==
  [ssh_exists : BOOLEAN, rand_s : Rands, rand_t : Rands,
   start_s : BOOLEAN, echo_s : BOOLEAN, start_t : BOOLEAN, echo_t : BOOLEAN]
ProbeOutcomes == [source_zfs : BOOLEAN, target_ps : BOOLEAN, target_zfs : BOOLEAN]
ExitOutcomes ==
  [exit_s : { "ok", "nonzero", "io error" }, exit_t : { "ok", "nonzero", "io error" }]

InitSsh ==
  /\ PlannerIdle
  /\ WalkerIdle
  /\ TwiceIdle
  /\ PruneIdle
  /\ PipeIdle
  /\ CalcIdle
  /\ ProcsIdle
  /\ \E sh \in SshHosts, th \in SshHosts, ncc \in BOOLEAN :
       ssh = [pc |-> "main", source_host |-> sh, target_host |-> th,
              no_command_checks |-> ncc,
              source_control |-> NoControl, target_control |-> NoControl,
              ran |-> <<>>, result |-> "running"]

SshFail(r) == [ssh EXCEPT !.pc = "done", !.result = "Err", !.ran = ssh.ran \o r.ran]

\* main: CmdConfig::check_ssh_if_needed
CheckSshIfNeeded ==
  /\ ssh # <<>> /\ ssh.pc = "main"
  /\ \E o \in SetupOutcomes :
       LET r == check_ssh_if_needed(ssh.source_host, ssh.target_host,
                                    ssh.no_command_checks, o)
       IN ssh' = [(IF r.ok THEN [ssh EXCEPT !.pc = "CmdConfig::new", !.ran = ssh.ran \o r.ran]
                            ELSE SshFail(r))
                    EXCEPT !.source_control = r.source_control,
                           !.target_control = r.target_control]
  /\ UNCHANGED <<mainVars, calc, procs>>

\* main: CmdConfig::new
NewCmdConfig ==
  /\ ssh # <<>> /\ ssh.pc = "CmdConfig::new"
  /\ \E o \in ProbeOutcomes :
       LET r == cmd_config_probes(ssh.source_host, ssh.target_host, ssh.source_control,
                                  ssh.target_control, ssh.no_command_checks, o)
       IN ssh' = IF r.ok
                 THEN [ssh EXCEPT !.pc = "sync", !.ran = ssh.ran \o r.ran]
                 ELSE SshFail(r)
  /\ UNCHANGED <<mainVars, calc, procs>>

\* main: the datasets are synced, with zfs commands on the source and on the
\* target, and all succeed or one fails
SyncDatasets ==
  /\ ssh # <<>> /\ ssh.pc = "sync"
  /\ \E ok \in BOOLEAN :
       LET r == [ran |-> <<Ran("zfs", ssh.source_host, ssh.source_control, TRUE),
                           Ran("zfs", ssh.target_host, ssh.target_control, ok)>>]
       IN ssh' = IF ok
                 THEN [ssh EXCEPT !.pc = "destroy_ssh_masters", !.ran = ssh.ran \o r.ran]
                 ELSE SshFail(r)
  /\ UNCHANGED <<mainVars, calc, procs>>

\* main: CmdConfig::destroy_ssh_masters, and the exit of the run
DestroySshMasters ==
  /\ ssh # <<>> /\ ssh.pc = "destroy_ssh_masters"
  /\ \E o \in ExitOutcomes :
       LET r == destroy_ssh_masters(ssh.source_host, ssh.target_host,
                                    ssh.source_control, ssh.target_control, o)
       IN ssh' = IF r.ok
                 THEN [ssh EXCEPT !.pc = "done", !.result = "Ok", !.ran = ssh.ran \o r.ran,
                         !.source_control = NoControl, !.target_control = NoControl]
                 ELSE [SshFail(r) EXCEPT !.source_control = NoControl,
                         !.target_control = IF CmdTarget_host(ssh.source_host) = CmdTarget_host(ssh.target_host)
                                            THEN NoControl ELSE ssh.target_control]
  /\ UNCHANGED <<mainVars, calc, procs>>

NextSsh == CheckSshIfNeeded \/ NewCmdConfig \/ SyncDatasets \/ DestroySshMasters

SpecSsh == InitSsh /\ [][NextSsh]_vars

\* ======================================================= pipeline processes
\* the processes of a sync: 1 is the source pipeline, MaxProcs the target
\* pipeline when there are that many, the local pipeline lies between them
PipelineCounts == 1 .. MaxProcs
\* ExitStatus::success
success(status) == status = 0
\* only the status of the last pipeline decides whether the sync failed
last_status(status, n) == status[n]

InitRun ==
  /\ PlannerIdle
  /\ WalkerIdle
  /\ TwiceIdle
  /\ PruneIdle
  /\ PipeIdle
  /\ CalcIdle
  /\ SshIdle
  /\ \E n \in PipelineCounts :
       procs = [f |-> "run_sync_pipelines", pc |-> "spawn", n |-> n,
                st |-> [p \in 1 .. n |-> "unspawned"],
                exited |-> [p \in 1 .. n |-> FALSE],
                status |-> [p \in 1 .. n |-> 0],
                signalled |-> [p \in 1 .. n |-> FALSE],
                guard |-> n - 1, result |-> "running"]

InRun == procs # <<>> /\ procs.f = "run_sync_pipelines"

\* run_sync_pipelines: the source (and local) pipelines are spawned and put
\* under a guard, and output() starts the last one
SpawnPipelines ==
  /\ InRun /\ procs.pc = "spawn"
  /\ procs' = [procs EXCEPT !.pc = "output", !.st = [p \in 1 .. procs.n |-> "running"]]
  /\ UNCHANGED <<mainVars, calc, ssh>>

\* a pipeline process exits by itself, with status zero or not
PipelineExits ==
  /\ InRun
  /\ \E p \in 1 .. procs.n, status \in { 0, 1 } :
       /\ procs.st[p] = "running"
       /\ procs' = [procs EXCEPT !.st[p] = "exited", !.exited[p] = TRUE,
                                 !.status[p] = status]
  /\ UNCHANGED <<mainVars, calc, ssh>>

\* output() returns once the last pipeline has exited, and reaps it
OutputReturns ==
  /\ InRun /\ procs.pc = "output"
  /\ procs.st[procs.n] = "exited"
  /\ procs' = [procs EXCEPT !.pc = IF procs.guard = 0 THEN "status" ELSE "drop",
                            !.st[procs.n] = "reaped"]
  /\ UNCHANGED <<mainVars, calc, ssh>>

\* the guards go out of scope, the last declared first: a process that has
\* exited is reaped, one that still runs is signalled and waited on
DropGuard ==
  /\ InRun /\ procs.pc = "drop"
  /\ LET p == procs.guard
     IN procs' = [procs EXCEPT
                    !.st[p] = "reaped",
                    !.signalled[p] = procs.st[p] = "running",
                    !.guard = p - 1,
                    !.pc = IF p = 1 THEN "status" ELSE "drop"]
  /\ UNCHANGED <<mainVars, calc, ssh>>

\* run_sync_pipelines: the status of the output decides the result
CheckStatus ==
  /\ InRun /\ procs.pc = "status"
  /\ procs' = [procs EXCEPT
                 !.pc = "done",
                 !.result = IF success(last_status(procs.status, procs.n))
                            THEN "Ok" ELSE "Err"]
  /\ UNCHANGED <<mainVars, calc, ssh>>

NextRun == SpawnPipelines \/ PipelineExits \/ OutputReturns \/ DropGuard \/ CheckStatus

SpecRun == InitRun /\ [][NextRun]_vars

\* ============================================================== AutoKill
\* Child::try_wait on a child that is running, has exited, or was reaped
\* already: a child that has exited is reaped by the call
try_wait(child) == IF child = "exited" THEN "reaped" ELSE child
\* AutoKill::is_reaped, by the state of the child after its try_wait
is_reaped(child) == try_wait(child) = "reaped"
\* terminate that signals whenever the child is not reaped
terminate_signals_unflagged(terminated, child) == ~ is_reaped(child)
\* AutoKill::terminate: whether SIGTERM is sent
terminate_signals(terminated, child) == ~ terminated /\ ~ is_reaped(child)

InitGuard ==
  /\ PlannerIdle
  /\ WalkerIdle
  /\ TwiceIdle
  /\ PruneIdle
  /\ PipeIdle
  /\ CalcIdle
  /\ SshIdle
  /\ procs = [f |-> "AutoKill", pc |-> "owner", ret |-> "owner", calls |-> 0,
              child |-> "running", terminated |-> FALSE,
              sigterm |-> 0, sigterm_late |-> FALSE, sigkill |-> FALSE,
              running_at_drop |-> FALSE, reaped_by |-> "nothing"]

Guarded == procs # <<>> /\ procs.f = "AutoKill"
\* the child after a try_wait, and who reaped it
Reaping(by) ==
  [procs EXCEPT !.child = try_wait(procs.child),
                !.reaped_by = IF procs.child = "exited" THEN by ELSE procs.reaped_by]
\* where terminate returns to
Returned == IF procs.ret = "drop" THEN "drop: sleep" ELSE "owner"

\* the child exits by itself (or on a signal it has been sent)
ChildExits ==
  /\ Guarded /\ procs.child = "running"
  /\ procs' = [procs EXCEPT !.child = "exited"]
  /\ UNCHANGED <<mainVars, calc, ssh>>

\* the owner of the guard calls terminate()
CallTerminate ==
  /\ Guarded /\ procs.pc = "owner" /\ procs.calls < MaxCalls
  /\ procs' = [procs EXCEPT !.pc = "terminate", !.ret = "owner", !.calls = procs.calls + 1]
  /\ UNCHANGED <<mainVars, calc, ssh>>

\* AutoKill::terminate up to its is_reaped
Terminate ==
  /\ Guarded /\ procs.pc = "terminate"
  /\ procs' = [(IF procs.terminated THEN procs ELSE Reaping("terminate"))
                 EXCEPT !.terminated = TRUE,
                        !.pc = IF terminate_signals(procs.terminated, procs.child)
                               THEN "terminate: kill" ELSE Returned]
  /\ UNCHANGED <<mainVars, calc, ssh>>

\* AutoKill::terminate: libc::kill(pid, SIGTERM)
TerminateKill ==
  /\ Guarded /\ procs.pc = "terminate: kill"
  /\ procs' = [procs EXCEPT !.pc = Returned, !.sigterm = procs.sigterm + 1,
                            !.sigterm_late = procs.child = "reaped"]
  /\ UNCHANGED <<mainVars, calc, ssh>>

\* the owner of the guard calls wait()
CallWait ==
  /\ Guarded /\ procs.pc = "owner" /\ procs.calls < MaxCalls
  /\ procs' = [procs EXCEPT !.pc = "wait", !.terminated = TRUE, !.calls = procs.calls + 1]
  /\ UNCHANGED <<mainVars, calc, ssh>>

\* AutoKill::wait: Child::wait returns once the child has exited
WaitReturns ==
  /\ Guarded /\ procs.pc = "wait" /\ procs.child # "running"
  /\ procs' = [Reaping("wait") EXCEPT !.pc = "owner"]
  /\ UNCHANGED <<mainVars, calc, ssh>>

\* the guard goes out of scope. Drop for AutoKill: the first is_reaped
Drop ==
  /\ Guarded /\ procs.pc = "owner"
  /\ procs' = [Reaping("drop") EXCEPT
                 !.pc = IF is_reaped(procs.child) THEN "dropped" ELSE "terminate",
                 !.ret = "drop",
                 !.running_at_drop = ~ is_reaped(procs.child)]
  /\ UNCHANGED <<mainVars, calc, ssh>>

\* Drop for AutoKill: the sleep, and the second is_reaped
DropSleep ==
  /\ Guarded /\ procs.pc = "drop: sleep"
  /\ procs' = [procs EXCEPT !.pc = "drop: is_reaped"]
  /\ UNCHANGED <<mainVars, calc, ssh>>

DropIsReaped ==
  /\ Guarded /\ procs.pc = "drop: is_reaped"
  /\ procs' = [Reaping("drop after sleep") EXCEPT
                 !.pc = IF is_reaped(procs.child) THEN "dropped" ELSE "drop: kill"]
  /\ UNCHANGED <<mainVars, calc, ssh>>

\* Drop for AutoKill: Child::kill, which no child survives
DropKill ==
  /\ Guarded /\ procs.pc = "drop: kill"
  /\ procs' = [procs EXCEPT !.pc = "drop: wait", !.sigkill = TRUE,
                            !.child = IF procs.child = "running" THEN "exited"
                                      ELSE procs.child]
  /\ UNCHANGED <<mainVars, calc, ssh>>

\* Drop for AutoKill: Child::wait
DropWait ==
  /\ Guarded /\ procs.pc = "drop: wait" /\ procs.child # "running"
  /\ procs' = [Reaping("drop wait") EXCEPT !.pc = "dropped"]
  /\ UNCHANGED <<mainVars, calc, ssh>>

NextGuard ==
  \/ ChildExits
  \/ CallTerminate
  \/ Terminate
  \/ TerminateKill
  \/ CallWait
  \/ WaitReturns
  \/ Drop
  \/ DropSleep
  \/ DropIsReaped
  \/ DropKill
  \/ DropWait

SpecGuard == InitGuard /\ [][NextGuard]_vars

\* ==================================================== privilege elevation
\* str::split_once: what comes before the first separator, in a one-element
\* sequence, or the empty sequence when there is no separator
split_once_before(s, sep) ==
  IF \E i \in DOMAIN s : s[i] = sep
  THEN LET i == CHOOSE j \in DOMAIN s : s[j] = sep /\ \A k \in 1 .. j - 1 : s[k] # sep
       IN << SubSeq(s, 1, i - 1) >>
  ELSE <<>>
\* get_is_roots get_is_root: Some(b) is <<b>>, None is <<>>
get_is_root(h, bypass_root_check) ==
  IF h = NoHost \/ split_once_before(h, "@") = <<>> THEN <<>>
  ELSE << bypass_root_check \/ split_once_before(h, "@")[1] = <<"root">> >>
unwrap_or(opt, default) == IF opt = <<>> THEN default ELSE opt[1]
\* fs.rs get_is_roots, for the user id of the local process
get_is_roots(s, t, bypass_root_check, uid) ==
  LET local_is_root == uid = 0
  IN [source |-> unwrap_or(get_is_root(s, bypass_root_check), local_is_root),
      target |-> unwrap_or(get_is_root(t, bypass_root_check), local_is_root)]
\* Cmd::to_cmd: the program and what follows it, after any ssh
Cmd_to_cmd(sudo, base) == IF sudo THEN <<"sudo", base>> ELSE <<base>>

\* the hosts of an endpoint, the user ids of the local process
RootHosts == { NoHost, <<"h">>, <<"root", "@", "h">>, <<"u", "@", "h">> }
Uids == { 0, 1000 }

InitRoots ==
  /\ PlannerIdle
  /\ WalkerIdle
  /\ TwiceIdle
  /\ PruneIdle
  /\ PipeIdle
  /\ SshIdle
  /\ ProcsIdle
  /\ \E s \in RootHosts, t \in RootHosts, b \in BOOLEAN, uid \in Uids :
       calc = [f |-> "get_is_roots", pc |-> "main",
               in |-> [source |-> s, target |-> t, no_privilege_elevation |-> b,
                       uid |-> uid],
               is_root |-> [source |-> FALSE, target |-> FALSE],
               source_zfs |-> <<>>, target_zfs |-> <<>>]

\* main: get_is_roots on the hosts of the two datasets
GetIsRoots ==
  /\ calc # <<>> /\ calc.f = "get_is_roots" /\ calc.pc = "main"
  /\ calc' = [calc EXCEPT
                !.pc = "CmdConfig::new",
                !.is_root = get_is_roots(calc.in.source, calc.in.target,
                                         calc.in.no_privilege_elevation, calc.in.uid)]
  /\ UNCHANGED <<mainVars, ssh, procs>>

\* CmdConfig::new: the zfs commands of the source and of the target
ZfsCommands ==
  /\ calc # <<>> /\ calc.f = "get_is_roots" /\ calc.pc = "CmdConfig::new"
  /\ calc' = [calc EXCEPT
                !.pc = "done",
                !.source_zfs = Cmd_to_cmd(~ calc.is_root.source, "zfs"),
                !.target_zfs = Cmd_to_cmd(~ calc.is_root.target, "zfs")]
  /\ UNCHANGED <<mainVars, ssh, procs>>

NextRoots == GetIsRoots \/ ZfsCommands

SpecRoots == InitRoots /\ [][NextRoots]_vars

\* ===================================================== the matching engine
\* the snapshots of the catalogs here: two are created in each second
MatchNames == 1 .. MaxMatch
CreatedAt(n) == (n + 1) \div 2
\* the sorted catalogs get_snaps may return for them: the seconds ascend, and
\* snapshots of one second come in the order they were listed in
SortedCatalogs ==
  { s \in UNION { [1 .. k -> MatchNames] : k \in 0 .. MaxMatch } :
      /\ \A i, j \in DOMAIN s : i # j => s[i] # s[j]
      /\ \A i, j \in DOMAIN s : i < j => CreatedAt(s[i]) <= CreatedAt(s[j]) }
CatalogOf(s, guidOf) == [i \in DOMAIN s |-> Snapshot(s[i], guidOf[s[i]], CreatedAt(s[i]))]
\* the bookmarks of a set of snapshots, sorted
BookmarksOf(b) ==
  LET byName == SortedCatalog(b, [n \in MatchNames |-> n])
  IN [i \in DOMAIN byName |-> Snapshot(byName[i].name, byName[i].guid,
                                       CreatedAt(byName[i].name))]
\* the guid of a target snapshot: the source's, or one of the target's own
ListedGuid(listing) ==
  [n \in MatchNames |-> IF listing[n] = "same" THEN n ELSE ForeignGuid]

InitMatch ==
  /\ PlannerIdle
  /\ WalkerIdle
  /\ TwiceIdle
  /\ PruneIdle
  /\ PipeIdle
  /\ SshIdle
  /\ ProcsIdle
  /\ \E s \in SortedCatalogs, t \in SortedCatalogs, b \in SUBSET MatchNames,
        listing \in [MatchNames -> { "same", "foreign" }] :
       calc = [f |-> "matching", pc |-> "catalogs",
               source_snaps |-> CatalogOf(s, [n \in MatchNames |-> n]),
               target_snaps |-> CatalogOf(t, ListedGuid(listing)),
               source_bookmarks |-> BookmarksOf(b),
               consulted |-> FALSE,
               out |-> NoMatching]

\* sync_dataset: get_matching_snapshot on the two catalogs
MatchSnapshot ==
  /\ calc # <<>> /\ calc.f = "matching" /\ calc.pc = "catalogs"
  /\ calc' = [calc EXCEPT
                !.out = get_matching_snapshot(calc.source_snaps,
                                              list_to_map(calc.target_snaps)),
                !.pc = IF is_none(get_matching_snapshot(calc.source_snaps,
                                                        list_to_map(calc.target_snaps)))
                       THEN "bookmarks" ELSE "done"]
  /\ UNCHANGED <<mainVars, ssh, procs>>

\* sync_dataset: no snapshot matches, the bookmarks are read and
\* get_matching_bookmark looks for one
MatchBookmark ==
  /\ calc # <<>> /\ calc.f = "matching" /\ calc.pc = "bookmarks"
  /\ calc' = [calc EXCEPT
                !.out = get_matching_bookmark(calc.target_snaps, calc.source_bookmarks,
                                              calc.source_snaps),
                !.consulted = TRUE,
                !.pc = "done"]
  /\ UNCHANGED <<mainVars, ssh, procs>>

NextMatch == MatchSnapshot \/ MatchBookmark

SpecMatch == InitMatch /\ [][NextMatch]_vars

\* ====================================================== catalog listing
\* get_snaps on the lines `zfs get -Hpd 1 -t snapshot guid,creation` prints:
\* one line per snapshot and property, in any order.
ListedNames == 1 .. MaxListed
\* the seconds a snapshot can have been created in
Seconds == { 1, 2 }
\* one line: <fs>@<snap> \t <property> \t <value>
Row(snap, property, value) ==
  [snap |-> snap, property |-> property, value |-> value]
\* the snapshots of a dataset in the order zfs lists them
ListingOrders ==
  UNION { { q \in [1 .. k -> ListedNames] :
              \A i, j \in 1 .. k : i # j => q[i] # q[j] } :
          k \in 0 .. MaxListed }
\* the lines of a valid catalog: per snapshot its guid and its creation
RowsOf(order, sec) ==
  [i \in 1 .. (2 * Len(order)) |->
     LET n == order[(i + 1) \div 2]
     IN IF i % 2 = 1 THEN Row(n, "guid", n) ELSE Row(n, "creation", sec[n])]
\* the same lines in another order
OtherOrders(rows) ==
  { q \in [DOMAIN rows -> { rows[i] : i \in DOMAIN rows }] :
      \A i, j \in DOMAIN rows : i # j => q[i] # q[j] }

\* Creation::new, and the derived Ord of Creation: creation, then idx
Creation_new(creation, idx) == [creation |-> creation, idx |-> idx]
Creation_cmp_less(x, y) ==
  \/ x.creation < y.creation
  \/ x.creation = y.creation /\ x.idx < y.idx
\* get_snaps, creation_counter when line i is read: the creation lines
\* read before it
creation_counter(rows, i) ==
  Cardinality({ j \in 1 .. (i - 1) : rows[j].property = "creation" })
\* get_snaps, the line that sets a field of pre_snapshots last (0 when none)
last_line(rows, n, property) ==
  LET hits == { i \in DOMAIN rows :
                  rows[i].snap = n /\ rows[i].property = property }
  IN IF hits = {} THEN 0 ELSE CHOOSE i \in hits : \A j \in hits : j <= i
\* get_snaps, the snapshots built of pre_snapshots that the filters keep
listed_snapshots(a, rows) ==
  { Snapshot(n, rows[last_line(rows, n, "guid")].value,
             Creation_new(rows[last_line(rows, n, "creation")].value,
                          creation_counter(rows, last_line(rows, n, "creation")))) :
      n \in { m \in { rows[i].snap : i \in DOMAIN rows } :
                snap_is_included(a, m) } }
\* slice::sort_by on elements no two of which compare equal
sort_by(S, less(_, _)) ==
  CHOOSE q \in [1 .. Cardinality(S) -> S] :
    \A i, j \in 1 .. Cardinality(S) :
      i < j => q[i] # q[j] /\ ~ less(q[j], q[i])
\* get_snaps, were the snapshots left in the order of their lines
get_snaps_lines_unsorted(a, rows) ==
  sort_by(listed_snapshots(a, rows),
          LAMBDA x, y : x.creation.idx < y.creation.idx)
\* CmdConfig::get_snaps on the lines read: an error when a snapshot lacks
\* its guid or its creation, else the snapshots sorted by Creation (equal
\* Creations by name)
get_snaps_lines(a, rows) ==
  IF \E i \in DOMAIN rows :
       \/ last_line(rows, rows[i].snap, "guid") = 0
       \/ last_line(rows, rows[i].snap, "creation") = 0
  THEN Err("Other", <<"didn't", "get", "both", "guid", "and", "creation">>)
  ELSE sort_by(listed_snapshots(a, rows),
               LAMBDA x, y : IF x.creation = y.creation THEN x.name < y.name
                             ELSE Creation_cmp_less(x.creation, y.creation))

InitSort ==
  /\ PlannerIdle
  /\ WalkerIdle
  /\ TwiceIdle
  /\ PruneIdle
  /\ PipeIdle
  /\ SshIdle
  /\ ProcsIdle
  /\ \E order \in ListingOrders, sec \in [ListedNames -> Seconds],
        filter \in FilterChoices :
       \E q \in OtherOrders(RowsOf(order, sec)) :
         calc = [f |-> "get_snaps", pc |-> "listed", filter |-> filter,
                 rows |-> RowsOf(order, sec), permuted |-> q,
                 out |-> <<>>, out_permuted |-> <<>>]

\* get_snaps reads the lines as zfs listed them
GetSnaps ==
  /\ calc # <<>> /\ calc.f = "get_snaps" /\ calc.pc = "listed"
  /\ calc' = [calc EXCEPT !.out = get_snaps_lines(calc.filter, calc.rows),
                          !.pc = "permuted"]
  /\ UNCHANGED <<mainVars, ssh, procs>>

\* get_snaps reads the same lines in the other order
GetSnapsPermuted ==
  /\ calc # <<>> /\ calc.f = "get_snaps" /\ calc.pc = "permuted"
  /\ calc' = [calc EXCEPT
                !.out_permuted = get_snaps_lines(calc.filter, calc.permuted),
                !.pc = "done"]
  /\ UNCHANGED <<mainVars, ssh, procs>>

NextSort == GetSnaps \/ GetSnapsPermuted

SpecSort == InitSort /\ [][NextSort]_vars

\* ====================================================== read_until_hup
\* pipe_and_capture_stderr hands read_until_hup its two children (main and
\* other) and their stderr pipes.  The children write, close their stderr
\* and exit on their own; read_until_hup polls, reads, and reaps.
HupChildren == 1 .. 2
ExitCodes == { 0, 1 }
\* Option<ExitStatus>
NoExitStatus == <<>>
SomeExitStatus(code) == << code >>
\* the revents poll reports for a pipe: POLLIN while bytes are unread,
\* POLLHUP once every writer has closed it
Revents(child) ==
  (IF child.unread > 0 THEN { "POLLIN" } ELSE {})
    \cup (IF ~ child.open THEN { "POLLHUP" } ELSE {})
poll_readable(revents) == "POLLIN" \in revents
poll_ended(revents) == "POLLHUP" \in revents
\* try_terminate_if_running: try_wait reaps a child that has exited, and a
\* child still running is sent SIGTERM
try_terminate_if_running(child) ==
  IF child.alive THEN [child EXCEPT !.sigterm = TRUE]
  ELSE [child EXCEPT !.reaped = TRUE]
\* the loop, were a failure not to end it
loop_breaks_never(failed) == FALSE
\* read_until_hup, `if failed { break }` at the end of a poll round
loop_breaks(failed) == failed
\* Vec::remove of the indices of remove_buffer, the largest first
remove_all(s, remove_buffer) ==
  LET kept == { k \in DOMAIN s : k \notin remove_buffer }
      nth(j) == CHOOSE k \in kept : Cardinality({ l \in kept : l < k }) = j - 1
  IN [j \in 1 .. Cardinality(kept) |-> s[nth(j)]]

InitHup ==
  /\ PlannerIdle
  /\ WalkerIdle
  /\ TwiceIdle
  /\ PruneIdle
  /\ PipeIdle
  /\ CalcIdle
  /\ SshIdle
  /\ procs = [f |-> "read_until_hup", pc |-> "poll",
              children |-> [i \in HupChildren |->
                              [alive |-> TRUE, reaped |-> FALSE, code |-> 0,
                               open |-> TRUE, unread |-> 0, written |-> 0,
                               sigterm |-> FALSE]],
              statuses |-> [i \in HupChildren |-> NoExitStatus],
              pollfds |-> [i \in HupChildren |-> i],
              revents |-> <<>>, at |-> 1, failed |-> FALSE,
              outputs |-> [i \in HupChildren |-> 0],
              remove_buffer |-> {}, events |-> <<>>,
              result |-> [status |-> "running", pairs |-> <<>>]]

Hup == procs # <<>> /\ procs.f = "read_until_hup"

\* a child writes a chunk to its stderr
HupChildWrites ==
  /\ Hup
  /\ \E i \in HupChildren :
       /\ procs.children[i].alive /\ procs.children[i].open
       /\ procs.children[i].written < MaxChunks
       /\ procs' = [procs EXCEPT !.children[i].written = @ + 1,
                                 !.children[i].unread = @ + 1]
  /\ UNCHANGED <<mainVars, calc, ssh>>

\* a child closes its stderr and goes on running
HupChildCloses ==
  /\ Hup
  /\ \E i \in HupChildren :
       /\ procs.children[i].alive /\ procs.children[i].open
       /\ procs' = [procs EXCEPT !.children[i].open = FALSE]
  /\ UNCHANGED <<mainVars, calc, ssh>>

\* a child exits, by itself or on a signal: its stderr is closed with it
HupChildExits ==
  /\ Hup
  /\ \E i \in HupChildren, code \in ExitCodes :
       /\ procs.children[i].alive
       /\ procs' = [procs EXCEPT !.children[i].alive = FALSE,
                                 !.children[i].open = FALSE,
                                 !.children[i].code = code]
  /\ UNCHANGED <<mainVars, calc, ssh>>

\* read_until_hup, the head of the loop: break when no fd is left, else
\* poll (without timeout) until an fd has an event
Poll ==
  /\ Hup /\ procs.pc = "poll"
  /\ IF procs.pollfds = <<>>
     THEN procs' = [procs EXCEPT !.pc = IF procs.failed THEN "terminate"
                                        ELSE "return",
                                 !.at = 1]
     ELSE /\ \E k \in DOMAIN procs.pollfds :
               Revents(procs.children[procs.pollfds[k]]) # {}
          /\ procs' = [procs EXCEPT
                         !.revents = [k \in DOMAIN procs.pollfds |->
                                        Revents(procs.children[procs.pollfds[k]])],
                         !.at = 1, !.pc = "loop"]
  /\ UNCHANGED <<mainVars, calc, ssh>>

\* the for loop over pollfds, a readable fd: read what is there
LoopRead ==
  /\ Hup /\ procs.pc = "loop" /\ procs.at <= Len(procs.pollfds)
  /\ poll_readable(procs.revents[procs.at])
  /\ LET idx == procs.pollfds[procs.at]
     IN procs' = [procs EXCEPT
                    !.outputs[idx] = @ + procs.children[idx].unread,
                    !.children[idx].unread = 0,
                    !.events = Append(@, <<"read", idx>>),
                    !.at = @ + 1]
  /\ UNCHANGED <<mainVars, calc, ssh>>

\* the for loop over pollfds, an fd that hung up: wait for the child (which
\* blocks until it has exited), note a failure, mark the fd for removal
LoopWait ==
  /\ Hup /\ procs.pc = "loop" /\ procs.at <= Len(procs.pollfds)
  /\ ~ poll_readable(procs.revents[procs.at])
  /\ poll_ended(procs.revents[procs.at])
  /\ LET idx == procs.pollfds[procs.at]
     IN /\ procs.statuses[idx] = NoExitStatus
        /\ ~ procs.children[idx].alive
        /\ procs' = [procs EXCEPT
                       !.statuses[idx] = SomeExitStatus(procs.children[idx].code),
                       !.children[idx].reaped = TRUE,
                       !.failed = @ \/ procs.children[idx].code # 0,
                       !.remove_buffer = @ \cup { procs.at },
                       !.events = Append(@, <<"wait", idx,
                                              procs.children[idx].code>>),
                       !.at = @ + 1]
  /\ UNCHANGED <<mainVars, calc, ssh>>

\* the for loop over pollfds, an fd without an event
LoopSkip ==
  /\ Hup /\ procs.pc = "loop" /\ procs.at <= Len(procs.pollfds)
  /\ ~ poll_readable(procs.revents[procs.at])
  /\ ~ (/\ poll_ended(procs.revents[procs.at])
        /\ procs.statuses[procs.pollfds[procs.at]] = NoExitStatus)
  /\ procs' = [procs EXCEPT !.at = @ + 1]
  /\ UNCHANGED <<mainVars, calc, ssh>>

\* the end of a poll round: the fds that hung up are removed, and a
\* failure ends the loop
EndRound ==
  /\ Hup /\ procs.pc = "loop" /\ procs.at > Len(procs.pollfds)
  /\ procs' = [procs EXCEPT
                 !.pollfds = remove_all(procs.pollfds, procs.remove_buffer),
                 !.revents = <<>>,
                 !.remove_buffer = {},
                 !.at = 1,
                 !.pc = IF loop_breaks(procs.failed) THEN "terminate"
                        ELSE "poll"]
  /\ UNCHANGED <<mainVars, calc, ssh>>

\* after a failure, a child whose status is still missing:
\* try_terminate_if_running
TryTerminate ==
  /\ Hup /\ procs.pc = "terminate" /\ procs.at \in HupChildren
  /\ IF procs.statuses[procs.at] # NoExitStatus
     THEN procs' = [procs EXCEPT !.at = @ + 1]
     ELSE procs' = [procs EXCEPT
                      !.children[procs.at] = try_terminate_if_running(@),
                      !.events = IF procs.children[procs.at].alive
                                 THEN Append(@, <<"sigterm", procs.at>>)
                                 ELSE @,
                      !.pc = "wait"]
  /\ UNCHANGED <<mainVars, calc, ssh>>

\* after a failure: wait for the child (which blocks until it has exited)
\* and fill its status in
WaitTerminated ==
  /\ Hup /\ procs.pc = "wait"
  /\ ~ procs.children[procs.at].alive
  /\ procs' = [procs EXCEPT
                 !.statuses[procs.at] = SomeExitStatus(procs.children[procs.at].code),
                 !.children[procs.at].reaped = TRUE,
                 !.at = @ + 1,
                 !.pc = "terminate"]
  /\ UNCHANGED <<mainVars, calc, ssh>>

\* the outputs zipped with the statuses; an empty status slot panics
ReturnStatuses ==
  /\ Hup
  /\ \/ procs.pc = "return"
     \/ procs.pc = "terminate" /\ procs.at \notin HupChildren
  /\ procs' = [procs EXCEPT
                 !.pc = "done",
                 !.result =
                   IF \E i \in HupChildren : procs.statuses[i] = NoExitStatus
                   THEN [status |-> "panic", pairs |-> <<>>]
                   ELSE [status |-> "ok",
                         pairs |-> [i \in HupChildren |->
                                      <<procs.outputs[i], procs.statuses[i][1]>>]]]
  /\ UNCHANGED <<mainVars, calc, ssh>>

NextHup ==
  \/ HupChildWrites \/ HupChildCloses \/ HupChildExits
  \/ Poll \/ LoopRead \/ LoopWait \/ LoopSkip \/ EndRound
  \/ TryTerminate \/ WaitTerminated \/ ReturnStatuses

SpecHup == InitHup /\ [][NextHup]_vars

\* ====================================================== bandwidth limits
\* Bytes::try_from_str, the value parser of --source-bwlimit and
\* --target-bwlimit.  A size is kept as its decimal digits without leading
\* zeros (<<>> is zero), so that values of 64 bits are compared as written.
AsciiDigits == <<"0", "1", "2", "3", "4", "5", "6", "7", "8", "9">>
char_is_ascii_digit(c) == \E i \in DOMAIN AsciiDigits : AsciiDigits[i] = c
AsciiDigitValue(c) == (CHOOSE i \in DOMAIN AsciiDigits : AsciiDigits[i] = c) - 1
SUFFIXES == { "k", "K", "m", "M", "g", "G", "t", "T" }
\* BytesSuffix::try_from(char)
BytesSuffix_try_from(c) ==
  IF c \in { "k", "K" } THEN "K"
  ELSE IF c \in { "m", "M" } THEN "M"
  ELSE IF c \in { "g", "G" } THEN "G"
  ELSE IF c \in { "t", "T" } THEN "T"
  ELSE "could not parse size suffix"
\* u64::MAX as written
U64MaxDigits ==
  <<"1", "8", "4", "4", "6", "7", "4", "4", "0", "7",
    "3", "7", "0", "9", "5", "5", "1", "6", "1", "5">>
RECURSIVE StripZeros(_)
StripZeros(num) ==
  IF num # <<>> /\ Head(num) = "0" THEN StripZeros(Tail(num)) ELSE num
\* the digits denote more than u64::MAX
ExceedsU64(digits) ==
  \/ Len(digits) > Len(U64MaxDigits)
  \/ /\ Len(digits) = Len(U64MaxDigits)
     /\ \E i \in DOMAIN digits :
          /\ \A j \in 1 .. (i - 1) : digits[j] = U64MaxDigits[j]
          /\ AsciiDigitValue(digits[i]) > AsciiDigitValue(U64MaxDigits[i])
\* str::parse::<u64> on a string of ascii digits: an error on the empty
\* string and on a value that does not fit
str_parse_u64(num) ==
  IF num = <<>> THEN [ok |-> FALSE, value |-> <<>>]
  ELSE IF ExceedsU64(StripZeros(num)) THEN [ok |-> FALSE, value |-> <<>>]
  ELSE [ok |-> TRUE, value |-> StripZeros(num)]
\* Result<Bytes, &str>, and the panic of an `expect` that fails
BytesOk(size, suffix) ==
  [status |-> "Ok", size |-> size, suffix |-> suffix, msg |-> ""]
BytesErr(msg) == [status |-> "Err", size |-> <<>>, suffix |-> "None", msg |-> msg]
BytesPanic(msg) ==
  [status |-> "panic", size |-> <<>>, suffix |-> "None", msg |-> msg]
\* Bytes::try_from_str from the i-th character on, with the locals of its loop
RECURSIVE Bytes_scan(_, _, _, _, _)
Bytes_scan(value, i, num, suffix, done) ==
  IF i > Len(value)
  THEN LET limit == str_parse_u64(num)
       IN IF ~ limit.ok
          THEN BytesPanic("should be able to parse ascii digits into size limit")
          ELSE IF limit.value = <<>>
          THEN BytesErr("size limit cannot be zero")
          ELSE BytesOk(limit.value, suffix)
  ELSE IF done
  THEN BytesErr("expected size value to end after suffix but found more characters")
  ELSE IF char_is_ascii_digit(value[i])
  THEN Bytes_scan(value, i + 1, Append(num, value[i]), suffix, done)
  ELSE IF value[i] \in SUFFIXES
  THEN Bytes_scan(value, i + 1, num, BytesSuffix_try_from(value[i]), TRUE)
  ELSE BytesErr("unrecognized character when parsing size")
\* Bytes::try_from_str
Bytes_try_from_str(value) == Bytes_scan(value, 1, <<>>, "None", FALSE)

\* the characters of the values tried, and the values: every string of up to
\* MaxBwLen of them, and u64::MAX and its successor as written
BwChars == { "0", "1", "9", "k", "T", "x" }
BwValues ==
  UNION { [1 .. n -> BwChars] : n \in 0 .. MaxBwLen }
    \cup { U64MaxDigits,
           [U64MaxDigits EXCEPT ![Len(U64MaxDigits)] = "6"],
           Append(U64MaxDigits, "k"),
           Append([U64MaxDigits EXCEPT ![Len(U64MaxDigits)] = "6"], "k") }

InitBytes ==
  /\ PlannerIdle
  /\ WalkerIdle
  /\ TwiceIdle
  /\ PruneIdle
  /\ PipeIdle
  /\ SshIdle
  /\ ProcsIdle
  /\ \E value \in BwValues :
       calc = [f |-> "Bytes::try_from_str", pc |-> "parse", in |-> value,
               out |-> BytesErr("")]

\* clap hands the value of --source-bwlimit or --target-bwlimit to the parser
ParseBwlimit ==
  /\ calc # <<>> /\ calc.f = "Bytes::try_from_str" /\ calc.pc = "parse"
  /\ calc' = [calc EXCEPT !.out = Bytes_try_from_str(calc.in), !.pc = "done"]
  /\ UNCHANGED <<mainVars, ssh, procs>>

NextBytes == ParseBwlimit

SpecBytes == InitBytes /\ [][NextBytes]_vars

\* ====================================================== planner properties
\* the commands of the run that change a dataset or pool
Modifies(c) ==
  \/ c.op \in { "snapshot", "receive_A", "destroy_r", "destroy" }
  \/ c.op = "send" /\ c.x.ran
\* the sends of the run, in order
Sends == SelectSeq(cmds, LAMBDA c : c.op = "send")
Issued(op) == \E i \in DOMAIN cmds : cmds[i].op = op

\* C1: with --dry-run, sync_dataset executes no command that modifies a
\* dataset or pool: no zfs snapshot, no zfs destroy (of the target or of old
\* sync snapshots), no zfs receive -A, and no send/receive pipeline is run.
C1_DryRunModifiesNothing ==
  args.dry_run => \A i \in DOMAIN cmds : ~ Modifies(cmds[i])

\* C2: zfs destroy -r <target> is issued only if --force-delete is set and
\* the target name contains '/', whatever the catalogs and the used size.
C2_DestroyOnlyForcedBelowPool ==
  Issued("destroy_r") => args.force_delete /\ Contains(target.fs, "/")
\* a target was destroyed
C2_Witness == Issued("destroy_r") /\ pc = "done" /\ result = Ok

\* C3 as stated: the 'target too small' failure happens only with force-delete
\* disabled; with --force-delete the target is destroyed even if used < 64 MiB.
C3_TooSmallOnlyWithoutForce ==
  result = Err("Other", MsgTooSmall) => ~ args.force_delete
\* C3 amended: when nothing matches, the planner fails with 'target too
\* small' exactly when the used size it read is below 64 MiB, with or without
\* --force-delete; the target is destroyed only when the size is at least
\* 64 MiB (under --dry-run the size is not read and is taken to be 64 MiB).
C3_TooSmallWhateverForce ==
  /\ result = Err("Other", MsgTooSmall)
       => ~ args.dry_run /\ env.used >= 0 /\ env.used < MIN_TARGET_USED
  /\ env.used >= 0 /\ env.used < MIN_TARGET_USED
       => pc = "done" /\ result = Err("Other", MsgTooSmall)
  /\ Issued("destroy_r") => args.dry_run \/ env.used >= MIN_TARGET_USED
\* the size check refused a small target although --force-delete was given
C3_Witness ==
  /\ args.force_delete
  /\ Contains(target.fs, "/")
  /\ env.used = MIN_TARGET_USED - 1
  /\ result = Err("Other", MsgTooSmall)

\* C4: when the resume send fails and zfs reports on stderr that the source
\* of the token no longer exists, sync_dataset runs zfs receive -A and goes on
\* with snapshot collection as if there were no token.
C4_StaleTokenIsReset ==
  env.resume_stderr \in { StderrStale1, StderrStale2 }
    => Issued("receive_A") /\ ~ (pc = "done" /\ result = Err("Other", MsgPipeline))
                           /\ ~ (pc = "done" /\ result = Err("Other", MsgSendSize))

\* C5: no pipeline is started while the busy check says the target is busy:
\* the target is checked before it is inspected, every send is immediately
\* preceded by a check that found the target free, and once a check finds the
\* target busy the dataset fails with the busy error.
C5_BusyFailsTheDataset ==
  /\ \A i \in DOMAIN cmds :
       cmds[i].op = "send" => i > 1 /\ cmds[i - 1].op = "ps" /\ ~ cmds[i - 1].ok
  /\ target_exists # "unknown" => cmds # <<>> /\ cmds[1] = Cmd("ps", target.fs, FALSE)
  /\ (\E i \in DOMAIN cmds : cmds[i].op = "ps" /\ cmds[i].ok)
       => /\ cmds[Len(cmds)].op = "ps"
          /\ pc = "done"
          /\ result = Err("ResourceBusy", MsgBusy)

\* what C9 expects of a send
FullSend(s) ==
  [flag |-> "", from |-> [k |-> "snapshot", n |-> s], to |-> NoName,
   ran |-> ~ args.dry_run]
StreamSend(from, to) ==
  [flag |-> "-I", from |-> [k |-> "snapshot", n |-> from], to |-> to,
   ran |-> ~ args.dry_run]
TwoSends ==
  LET n == Len(source_snaps)
      sent == [i \in DOMAIN Sends |-> Sends[i].x]
  IN IF n = 1 THEN sent = <<FullSend(source_snaps[1].name)>>
     ELSE sent = <<FullSend(source_snaps[1].name),
                   StreamSend(source_snaps[1].name, source_snaps[n].name)>>
FreshStreamRun ==
  /\ pc = "done"
  /\ result = Ok
  /\ target_exists = "no"
  /\ ~ args.no_stream
  /\ created_new_sync_snap = NoName
  /\ source_snaps # <<>>

\* C9 as stated: on a fresh target in stream mode, with no new sync snapshot
\* and the source catalog S1 < ... < Sn, a run that succeeds issues exactly two
\* sends: the full send of S1, then -I from S1 to Sn (n = 1: the full send).
C9_FreshTargetTwoSends == FreshStreamRun => TwoSends
\* C9 amended: the same, when no snapshot filter is given and the source and
\* the target are not both clones (under --dry-run the sends are prepared
\* and logged, not run).
C9_FreshTargetTwoSendsPlain ==
  /\ FreshStreamRun
  /\ ~ SnapsFiltered(args)
  /\ ~ (source.origin # NoFs /\ target.origin # NoFs)
  => TwoSends
\* a fresh target received S1 and then everything up to the newest snapshot
C9_Witness ==
  /\ FreshStreamRun
  /\ ~ SnapsFiltered(args)
  /\ ~ args.dry_run
  /\ Len(source_snaps) >= 2
  /\ Len(Sends) = 2
  /\ Sends[2].ok

NewestIsOnTarget ==
  /\ target_exists = "yes"
  /\ recv_token = None
  /\ created_new_sync_snap = NoName
  /\ source_snaps # <<>>
  /\ \E i \in DOMAIN env.target_snaps :
       /\ env.target_snaps[i].name = source_snaps[Len(source_snaps)].name
       /\ env.target_snaps[i].guid = source_snaps[Len(source_snaps)].guid

\* C10: when the target exists, has no resume token, no new sync snapshot is
\* created and the newest source snapshot is on the target with the same name
\* and guid, sync_dataset issues no send, destroys nothing and returns success.
C10_NothingToDo ==
  NewestIsOnTarget
    => /\ pc = "done"
       /\ result = Ok
       /\ Sends = <<>>
       /\ ~ Issued("destroy_r")
       /\ ~ Issued("destroy")
\* an up-to-date target holding two of the source's snapshots
C10_Witness ==
  /\ NewestIsOnTarget
  /\ Len(source_snaps) >= 2
  /\ \E i \in DOMAIN env.target_snaps :
       env.target_snaps[i] = source_snaps[1]
  /\ pc = "done"
\* the incremental sends of the run (-i and -I from a snapshot or bookmark)
IncrementalSends ==
  LET inc == SelectSeq(Sends, LAMBDA c : c.x.flag \in { "-i", "-I" }
                                          /\ c.x.from.k # "origin")
  IN [i \in DOMAIN inc |-> inc[i].x]
SentFrom(flag, k, from, to) ==
  [flag |-> flag, from |-> [k |-> k, n |-> from], to |-> to,
   ran |-> ~ args.dry_run]
\* a run that went through the stream path without filters and succeeded
StreamRun ==
  /\ pc = "done"
  /\ result = Ok
  /\ ~ args.no_stream
  /\ ~ SnapsFiltered(args)
  /\ ~ is_none(matching)
  /\ matching.rest # <<>>

\* C11: in stream mode without filters, a bookmark match with tail t1..tk
\* gives one -i send from the bookmark to t1 and then, only if k > 1, one -I
\* send from t1 to tk; a snapshot match gives a single -I send from the match
\* to tk.  A bookmark is only ever the source of an -i send.
C11_BookmarkThenStream ==
  /\ StreamRun =>
       LET k == Len(matching.rest)
           t1 == matching.rest[1].name
           tk == matching.rest[k].name
           m == matching.inter.snap.name
       IN IF matching.inter.kind = "Bookmark"
          THEN IncrementalSends =
                 <<SentFrom("-i", "bookmark", m, t1)>>
                 \o (IF k > 1 THEN <<SentFrom("-I", "snapshot", t1, tk)>>
                     ELSE <<>>)
          ELSE IncrementalSends = <<SentFrom("-I", "snapshot", m, tk)>>
  /\ \A i \in DOMAIN Sends :
       /\ Sends[i].x.from.k = "bookmark" => Sends[i].x.flag = "-i"
       /\ Sends[i].x.flag = "-I" => Sends[i].x.from.k = "snapshot"
       /\ Sends[i].x.to # NoName =>
            \E j \in DOMAIN source_snaps : source_snaps[j].name = Sends[i].x.to
\* a bookmark matched and two snapshots were newer than it
C11_Witness ==
  /\ StreamRun
  /\ matching.inter.kind = "Bookmark"
  /\ Len(matching.rest) = 2
  /\ Len(IncrementalSends) = 2
\* the sends of the run other than the resume
NonResumeSends == SelectSeq(Sends, LAMBDA c : c.x.flag # "-t")
\* those, without the clone-from-origin sends that failed
NonResumeSendsKept ==
  SelectSeq(NonResumeSends, LAMBDA c : ~ (c.x.from.k = "origin" /\ ~ c.ok))
\* what --no-stream sends on a fresh target, and after a match
NoStreamFresh(sent) ==
  pc = "done" /\ result = Ok /\ target_exists = "no"
    => /\ Len(sent) = 1
       /\ \/ sent[1].x = [flag |-> "", to |-> NoName, ran |-> ~ args.dry_run,
                          from |-> [k |-> "snapshot", n |-> newest_sync_snapshot]]
          \/ sent[1].x = [flag |-> "-i", to |-> newest_sync_snapshot,
                          ran |-> ~ args.dry_run,
                          from |-> [k |-> "origin", n |-> 0]]
NoStreamMatched(sent) ==
  /\ pc = "done" /\ result = Ok /\ target_exists = "yes"
  /\ ~ is_none(matching) /\ matching.rest # <<>>
  => /\ Len(sent) = 1
     /\ sent[1].x.flag = "-i"
     /\ sent[1].x.from.k = (IF matching.inter.kind = "Bookmark" THEN "bookmark"
                            ELSE "snapshot")
     /\ sent[1].x.from.n = matching.inter.snap.name
     /\ sent[1].x.to = matching.rest[Len(matching.rest)].name
     /\ sent[1].x.to = newest_sync_snapshot

\* C12 as stated: with --no-stream a run issues at most one non-resume send:
\* on a fresh target exactly one send of the newest snapshot (full or from the
\* origin), after a match with a non-empty tail exactly one -i send from the
\* match to the newest tail entry.
C12_NoStreamOneSend ==
  args.no_stream =>
    /\ Len(NonResumeSends) <= 1
    /\ NoStreamFresh(NonResumeSends)
    /\ NoStreamMatched(NonResumeSends)
\* C12 amended: the same, not counting a clone-from-origin send that failed:
\* such a send is followed by the full send of the same snapshot.
C12_NoStreamOneSendKept ==
  args.no_stream =>
    /\ Len(NonResumeSendsKept) <= 1
    /\ NoStreamFresh(NonResumeSendsKept)
    /\ NoStreamMatched(NonResumeSendsKept)
    /\ \A i \in DOMAIN NonResumeSends :
         NonResumeSends[i].x.from.k = "origin" /\ ~ NonResumeSends[i].ok
           => /\ i = 1
              /\ Len(NonResumeSends) <= 2
              /\ Len(NonResumeSends) = 2 =>
                   /\ NonResumeSends[2].x.flag = ""
                   /\ NonResumeSends[2].x.from.n = NonResumeSends[1].x.to
\* --no-stream skipped a snapshot between the match and the newest one
C12_Witness ==
  /\ args.no_stream
  /\ pc = "done" /\ result = Ok /\ target_exists = "yes"
  /\ Len(matching.rest) = 2
  /\ Len(NonResumeSends) = 1
\* the sends issued after the target was destroyed
SendsAfterDestroy ==
  LET at == CHOOSE i \in DOMAIN cmds : cmds[i].op = "destroy_r"
      later == SelectSeq(SubSeq(cmds, at + 1, Len(cmds)),
                         LAMBDA c : c.op = "send")
  IN [i \in DOMAIN later |-> later[i].x]
\* a failed destroy ends the run, and no sync snapshot is taken after one
DestroyThenNoSnapshot ==
  \A i \in DOMAIN cmds :
    cmds[i].op = "destroy_r"
      => /\ ~ cmds[i].ok =>
              i = Len(cmds) /\ pc = "done" /\ result = Err("Other", MsgDestroy)
         /\ \A j \in DOMAIN cmds : cmds[j].op = "snapshot" => j < i
ForcedRedoRun ==
  /\ pc = "done"
  /\ result = Ok
  /\ ~ args.no_stream
  /\ Issued("destroy_r")

\* C13 as stated: no match, --force-delete, non-root target, used >= 64 MiB,
\* stream mode: destroy -r, then the full send of the oldest source snapshot,
\* then one -I send from the oldest to the newest; no sync snapshot is taken
\* for the redo and a failed destroy is followed by no send.
C13_DestroyFullStream ==
  /\ DestroyThenNoSnapshot
  /\ ForcedRedoRun =>
       SendsAfterDestroy =
         <<FullSend(source_snaps[1].name),
           StreamSend(source_snaps[1].name,
                      source_snaps[Len(source_snaps)].name)>>
\* C13 amended: the same when no snapshot filter is given and the source
\* catalog has more than one entry; with a single entry only the full send
\* follows the destroy.
C13_DestroyFullStreamPlain ==
  /\ DestroyThenNoSnapshot
  /\ ForcedRedoRun /\ ~ SnapsFiltered(args) =>
       SendsAfterDestroy =
         IF Len(source_snaps) = 1 THEN <<FullSend(source_snaps[1].name)>>
         ELSE <<FullSend(source_snaps[1].name),
                StreamSend(source_snaps[1].name,
                           source_snaps[Len(source_snaps)].name)>>
\* a target holding a foreign snapshot was destroyed and sent afresh
C13_Witness ==
  /\ ForcedRedoRun
  /\ ~ SnapsFiltered(args)
  /\ Len(source_snaps) >= 2
  /\ env.used >= MIN_TARGET_USED
  /\ env.target_snaps # <<>>
  /\ Len(SendsAfterDestroy) = 2
  /\ cmds[Len(cmds)].op = "send"

\* ======================================================= walker properties
\* the early `ps` scan showed a receive into one of the child targets
ScanMatched ==
  \E line \in wenv.ps : \E i \in DOMAIN targets :
    zfs_recv_is_match(line, targets[i].fs)
FailedUntouched(kind) ==
  /\ wpc = "done"
  /\ wresult.status = "err"
  /\ wresult.kind = kind
  /\ synced = <<>>

\* C6: in a recursive run both preflight checks are over before any dataset
\* is touched: when the one `ps` scan matches any child target (and
\* --no-recv-check-start is not given), or --skip-parent is given and the
\* target parent does not exist, the run fails with no sync_dataset call made.
C6_PreflightBeforeAnySync ==
  /\ wpc \in { "start", "busy", "parent" } => synced = <<>>
  /\ ScanMatched => FailedUntouched("ResourceBusy")
  /\ wenv.parent = "no" => FailedUntouched("ResourceBusy")
\* the scan matched a child target other than the first, and the run stopped
C6_Witness ==
  /\ Len(targets) >= 2
  /\ \E line \in wenv.ps : zfs_recv_is_match(line, targets[2].fs)
  /\ FailedUntouched("ResourceBusy")

\* C7: with clone handling, every child whose target origin names the target
\* of another child of the batch is synced after that child, in every listing
\* order and also when the base is itself a clone of a third child.
C7_BaseSyncedBeforeClone ==
  wargs.recursive /\ wargs.clone_handling =>
    \A j \in DOMAIN synced :
      (\E i \in DOMAIN targets : targets[i].fs = origin_dataset(synced[j].target))
        => \E k \in 1 .. (j - 1) :
             synced[k].target.fs = origin_dataset(synced[j].target)

\* C8: datasets are synced one after another and the first sync that returns
\* an error stops the walk: no child of either pass is synced after it and
\* the run returns that error.
C8_FirstFailureStops ==
  \A j \in DOMAIN synced :
    synced[j].res.status = "err"
      => j = Len(synced) /\ wpc = "done" /\ wresult = synced[j].res
\* a failure in the second pass, with a deferred child left unsynced
C8_Witness ==
  /\ wargs.recursive
  /\ wpc = "done"
  /\ Len(synced) >= 2
  /\ synced[Len(synced)].res.status = "err"
  /\ Len(deferred) >= 2
  /\ synced[Len(synced)].i = deferred[1]
  /\ wresult = synced[Len(synced)].res


\* ==================================================== two-run properties
\* the snapshots a finished run took on the source
SnapshotsTaken(r) == IF r.created # NoName /\ ~ job.args.dry_run THEN 1 ELSE 0

\* a run sends a full stream
SendsFull(r) == \E i \in DOMAIN r.sends : r.sends[i].kind = "full"

\* the run found, for a target that exists, the snapshot n as its match
MatchedSnapshot(r, n) ==
  /\ ~ r.fresh
  /\ ~ r.destroyed
  /\ r.matching.inter.kind = "Snapshot"
  /\ r.matching.inter.snap.name = n

\* the run found a bookmark as its match, with no snapshot after it
UpToDateWithBookmark(r) ==
  /\ ~ r.fresh
  /\ ~ r.destroyed
  /\ r.matching.inter.kind = "Bookmark"
  /\ r.sends = <<>>

Catalogued(snaps) == { snaps[i].name : i \in DOMAIN snaps }
\* the invocations made for one side, and how often they name a snapshot
DestroysOn(role) == SelectSeq(prune.out, LAMBDA c : c.x.role = role)
TimesDestroyed(role, n) ==
  Cardinality({ <<i, j>> \in (DOMAIN DestroysOn(role)) \X (1 .. 10) :
                  /\ j \in DOMAIN DestroysOn(role)[i].x.snaps
                  /\ DestroysOn(role)[i].x.snaps[j] = n })
\* the names of a side that pruning is to destroy: those of earlier sync
\* snapshots, the ordinary snapshot and this run's sync snapshot left out
OldSyncNames(snaps) ==
  { n \in Catalogued(snaps) : n > MaxSnaps /\ n # prune.in.created }
\* pruning is due
PruneDue ==
  /\ prune.in.sends_ok
  /\ prune.in.created # NoName
  /\ ~ prune.in.keep_sync_snap
\* on one side: every old sync snapshot of the catalog is destroyed once,
\* nothing else is, and no invocation names more than 10
PrunedExactly(role, snaps) ==
  /\ \A n \in OldSyncNames(snaps) : TimesDestroyed(role, n) = 1
  /\ \A n \in (0 .. (MaxSnaps + MaxOld)) \ OldSyncNames(snaps) :
       TimesDestroyed(role, n) = 0
  /\ \A i \in DOMAIN DestroysOn(role) :
       /\ Len(DestroysOn(role)[i].x.snaps) >= 1
       /\ Len(DestroysOn(role)[i].x.snaps) <= 10

Pipelined == pipe # <<>> /\ pipe.pc \in { "run", "done" }
HasRole(p, role) == \E i \in DOMAIN p.cmds : p.cmds[i].role = role
\* the probe of a binary on a host succeeds, or no probe is made
There(a, host, base) == a.no_command_checks \/ <<host, base>> \notin a.missing
\* both binaries of a push or a pull are where they are to run
PairThere(a) ==
  LET cc == Compress_to_cmd(a.compress)
  IN /\ There(a, HostOf(a.source_remote, HostSource), cc.base)
     /\ There(a, HostOf(a.target_remote, HostTarget), cc.decompress)
PushOrPull(a) == a.source_remote # a.target_remote
CompressionAsked(a) ==
  /\ a.compress # "none"
  /\ "compress" \notin a.skip_optional_commands
  /\ "localcompress" \notin a.skip_optional_commands

\* C16: in a push or a pull with a compression other than none, with neither
\* compress nor localcompress skipped and both binaries there (or no probes),
\* the source pipeline has the compressor and the target pipeline the
\* decompressor; with --compress none the inventory is built and no pipeline
\* has a compressor or a decompressor.
C16_CompressionStages ==
  /\ pipe # <<>> /\ pipe.pc # "new" /\ pipe.in.compress = "none"
       => pipe.res.status = "ok"
  /\ Pipelined /\ pipe.in.compress = "none"
       => \A i \in 1 .. 3 : /\ ~ HasRole(pipe.pipelines[i], "compress")
                            /\ ~ HasRole(pipe.pipelines[i], "decompress")
  /\ Pipelined /\ PushOrPull(pipe.in) /\ CompressionAsked(pipe.in)
     /\ PairThere(pipe.in)
       => /\ HasRole(pipe.pipelines[1], "compress")
          /\ HasRole(pipe.pipelines[3], "decompress")
\* the two halves of C16, each alone
C16_StagesWhenAsked ==
  Pipelined /\ PushOrPull(pipe.in) /\ CompressionAsked(pipe.in)
  /\ PairThere(pipe.in)
    => /\ HasRole(pipe.pipelines[1], "compress")
       /\ HasRole(pipe.pipelines[3], "decompress")
C16_NoneBuilds ==
  pipe # <<>> /\ pipe.pc # "new" /\ pipe.in.compress = "none"
    => pipe.res.status = "ok"


\* the stages of all the pipelines of the transfer, as a count of one role
RECURSIVE CountRole(_, _)
CountRole(list, role) ==
  IF list = <<>> THEN 0
  ELSE (IF Head(list).role = role THEN 1 ELSE 0) + CountRole(Tail(list), role)
AllStages == pipe.pipelines[1].cmds \o pipe.pipelines[2].cmds \o pipe.pipelines[3].cmds
\* whatever is asked and whichever arm is taken, no inventory and no pipeline
\* that is built holds a compressor or a decompressor: the arms that insert
\* one are reached only with --compress none, where the unwrap() panics
CompressionNeverBuilt ==
  /\ pipe # <<>> =>
       \A k \in { "sourcecompress", "targetcompress", "localcompress",
                  "localdecompress" } : pipe.res.inner[k] = NoTool
  /\ Pipelined =>
       CountRole(AllStages, "compress") + CountRole(AllStages, "decompress") = 0


\* the progress bar may run on the source host: its tag is enabled and the
\* binary is found there
SourcePvAvailable ==
  /\ "sourcepv" \in get_relevant_enabled(pipe.res.conn_type, pipe.in)
  /\ There(pipe.in, HostOf(pipe.in.source_remote, HostSource), "pv")

\* C18: the pipelines built for one sync hold at most one pv stage in all;
\* in the remote-direct case the source pv is used when it is available and
\* the target pv only when the source one is not.
C18_OnePv ==
  Pipelined =>
    /\ CountRole(AllStages, "pv") <= 1
    /\ pipe.res.conn_type = "RemoteDirect" =>
         /\ SourcePvAvailable => HasRole(pipe.pipelines[1], "pv")
         /\ HasRole(pipe.pipelines[3], "pv") => ~ SourcePvAvailable
\* a remote-direct transfer whose source host has no pv shows the progress
\* bar on the target host, and only there
C18_Witness ==
  /\ Pipelined
  /\ pipe.res.conn_type = "RemoteDirect"
  /\ { "sourcepv", "targetpv" } \subseteq get_relevant_enabled("RemoteDirect", pipe.in)
  /\ ~ There(pipe.in, HostSource, "pv")
  /\ HasRole(pipe.pipelines[3], "pv")
  /\ CountRole(AllStages, "pv") = 1
\* an indirect transfer with the progress bar on the local hop, the source
\* pv enabled and found as well
C18_WitnessIndirect ==
  /\ Pipelined
  /\ pipe.res.conn_type = "RemoteIndirect"
  /\ SourcePvAvailable
  /\ HasRole(pipe.pipelines[2], "pv")
  /\ CountRole(AllStages, "pv") = 1


\* an mbuffer may run on a host: its tag is not skipped and the binary is
\* found there
MbufferAvailable(tag, host) ==
  /\ optional_enabled(pipe.in, tag)
  /\ There(pipe.in, host, "mbuffer")
HasMbuffer(p) == HasRole(p, "source_mbuffer") \/ HasRole(p, "target_mbuffer")

\* C19: in a remote-indirect transfer the local hop has its mbuffer stages
\* exactly when localmbuffer is enabled and mbuffer is found locally, whatever
\* became of pv, of compression and of the other mbuffers; the source and the
\* target mbuffer each depend on their own flag and probe alone.
C19_MbufferPerHop ==
  Pipelined /\ pipe.res.conn_type = "RemoteIndirect" =>
    /\ HasMbuffer(pipe.pipelines[2]) <=> MbufferAvailable("localmbuffer", HostLocal)
    /\ HasMbuffer(pipe.pipelines[1]) <=> MbufferAvailable("sourcembuffer", HostSource)
    /\ HasMbuffer(pipe.pipelines[3]) <=> MbufferAvailable("targetmbuffer", HostTarget)
\* the part of C19 about the source and the target hop, which holds
C19_SourceAndTarget ==
  Pipelined /\ pipe.res.conn_type = "RemoteIndirect" =>
    /\ HasMbuffer(pipe.pipelines[1]) <=> MbufferAvailable("sourcembuffer", HostSource)
    /\ HasMbuffer(pipe.pipelines[3]) <=> MbufferAvailable("targetmbuffer", HostTarget)


\* what a stage is, in the words of the topology table
Kind(role) ==
  IF role \in { "source_mbuffer", "target_mbuffer" } THEN "mbuffer" ELSE role
Kinds(p) == [i \in DOMAIN p.cmds |-> Kind(p.cmds[i].role)]
\* s is t with some of its members left out
RECURSIVE IsSubSeq(_, _)
IsSubSeq(s, t) ==
  IF s = <<>> THEN TRUE
  ELSE IF t = <<>> THEN FALSE
  ELSE IF Head(s) = Head(t) THEN IsSubSeq(Tail(s), Tail(t))
  ELSE IsSubSeq(s, Tail(t))
\* the rows of the topology table: the stages of each hop, in order
TableRow(conn_type, hop) ==
  IF conn_type = "Local"
  THEN (IF hop = 1 THEN <<"send", "pv", "mbuffer", "recv">> ELSE <<>>)
  ELSE IF conn_type = "Push"
  THEN (IF hop = 1 THEN <<"send", "pv", "compress", "mbuffer">>
        ELSE IF hop = 3 THEN <<"decompress", "mbuffer", "recv">> ELSE <<>>)
  ELSE IF conn_type = "Pull"
  THEN (IF hop = 1 THEN <<"send", "compress", "mbuffer">>
        ELSE IF hop = 3 THEN <<"decompress", "mbuffer", "pv", "recv">> ELSE <<>>)
  ELSE (IF hop = 1 THEN <<"send", "pv", "compress", "mbuffer">>
        ELSE IF hop = 2 THEN <<"mbuffer", "decompress", "pv", "compress", "mbuffer">>
        ELSE <<"decompress", "mbuffer", "recv">>)
\* the last pipeline there is
LastPipeline ==
  IF pipe.pipelines[3] # NoPipeline THEN pipe.pipelines[3]
  ELSE IF pipe.pipelines[2] # NoPipeline THEN pipe.pipelines[2]
  ELSE pipe.pipelines[1]

\* C20: build_sync_pipelines returns one pipeline for Local, a source and a
\* target pipeline for push and pull, and a source, an optional local and a
\* target pipeline for remote-indirect; the source pipeline starts with
\* `zfs send`, the last pipeline ends with `zfs receive`, the stages of each
\* hop are in the order of the table's row, and the command of a remote
\* pipeline asks for a TTY exactly when the pipeline has the pv stage.
C20_Layout ==
  Pipelined =>
    LET conn_type == pipe.res.conn_type
        p == pipe.pipelines
    IN /\ p[1] # NoPipeline
       /\ conn_type = "Local" => p[2] = NoPipeline /\ p[3] = NoPipeline
       /\ conn_type \in { "Push", "Pull" } => p[2] = NoPipeline /\ p[3] # NoPipeline
       /\ conn_type = "RemoteIndirect" => p[3] # NoPipeline
       /\ p[1].cmds[1] = send_cmd
       /\ LastPipeline.cmds[Len(LastPipeline.cmds)] = recv_cmd
       /\ CountRole(AllStages, "send") = 1 /\ CountRole(AllStages, "recv") = 1
       /\ \A i \in 1 .. 3 : IsSubSeq(Kinds(p[i]), TableRow(conn_type, i))
       /\ pipe.pc = "done" =>
            \A i \in 1 .. 3 :
              p[i] # NoPipeline /\ p[i].target # HostLocal =>
                /\ pipe.run[i].program = "ssh"
                /\ pipe.run[i].tty <=> HasRole(p[i], "pv")
\* the commands of an indirect transfer are made: pv and mbuffer run on the
\* source host, under a TTY, and there is no local pipeline
C20_Witness ==
  /\ pipe # <<>> /\ pipe.pc = "done"
  /\ pipe.res.conn_type = "RemoteIndirect"
  /\ Kinds(pipe.pipelines[1]) = <<"send", "pv", "mbuffer">>
  /\ pipe.run[1].tty
  /\ pipe.pipelines[2] = NoPipeline
  /\ ~ pipe.run[3].tty
\* an indirect transfer with all three pipelines
C20_WitnessLocalHop ==
  /\ pipe # <<>> /\ pipe.pc = "done"
  /\ pipe.res.conn_type = "RemoteIndirect"
  /\ Kinds(pipe.pipelines[2]) = <<"mbuffer", "pv", "mbuffer">>


\* ======================================================= option properties
OptionsPlaced == calc # <<>> /\ calc.f = "run_sync_cmd" /\ calc.pc = "done"
\* the flag letter of an option as it is put on the command line
FlagOf(line) == line[2]
FlagsOf(lines) == { FlagOf(lines[i]) : i \in DOMAIN lines }
\* the flags the spec allows on a send, by the kind of send
AllowedOnSend(by) ==
  IF by = "sync_resume" THEN { "P", "V", "e", "v" }
  ELSE IF by = "sync_intermidiate bookmark" THEN { "L", "V", "c", "e", "w" }
  ELSE { "L", "P", "V", "R", "X", "b", "c", "e", "h", "p", "s", "v", "w" }
\* the lines of the receive the user asked for: all but the -s and -F the
\* program adds at the end
UserRecv ==
  SubSeq(calc.out.recv, 1,
         Len(calc.out.recv) - (IF calc.in.no_resume THEN 0 ELSE 1)
                            - (IF calc.in.no_rollback THEN 0 ELSE 1))

\* C21: whatever --send-options and --recv-options hold, the flags on a send
\* are among those allowed for its mode (resume: P,V,e,v; from a bookmark:
\* L,V,c,e,w; otherwise L,P,V,R,X,b,c,e,h,p,s,v,w), and the flags on the
\* receive are user flags among h,o,x,u,v, plus -s exactly when --no-resume is
\* not set and -F exactly when --no-rollback is not set.
C21_OnlyAllowedFlags ==
  OptionsPlaced =>
    /\ FlagsOf(calc.out.send) \subseteq AllowedOnSend(calc.in.send_from.by)
    /\ FlagsOf(UserRecv) \subseteq { "h", "o", "x", "u", "v" }
    /\ FlagsOf(UserRecv) \subseteq
         { calc.in.recv_options[i] : i \in DOMAIN calc.in.recv_options }
    /\ "s" \in FlagsOf(calc.out.recv) <=> ~ calc.in.no_resume
    /\ "F" \in FlagsOf(calc.out.recv) <=> ~ calc.in.no_rollback
\* a send from a bookmark is asked for -P and -c, and gets -c alone
C21_Witness ==
  /\ OptionsPlaced
  /\ calc.in.send_from.by = "sync_intermidiate bookmark"
  /\ calc.in.send_options = <<"P", "c">>
  /\ calc.out.send = << <<"-", "c">> >>
\* a receive is asked for -s and -F with --no-resume and --no-rollback, and
\* gets neither
C21_WitnessRecv ==
  /\ OptionsPlaced
  /\ calc.in.recv_options = <<"s", "F">>
  /\ calc.in.no_resume /\ calc.in.no_rollback
  /\ calc.out.recv = <<>>
\* a receive asked for `o s` gets the property, and -s of its own
C21_WitnessValue ==
  /\ OptionsPlaced
  /\ calc.in.recv_options = <<"o", " ", "s">>
  /\ ~ calc.in.no_resume /\ calc.in.no_rollback
  /\ calc.out.recv = << <<"-", "o", " ", "s">>, <<"-", "s">> >>


\* ========================================================= size properties
\* C22: whenever the estimate `zfs send -nvP` succeeds, whatever it prints,
\* the size get_send_size returns, and pv is given, is at least 4096 bytes.
C22_SizeAtLeast4096 ==
  /\ calc # <<>> /\ calc.f = "get_send_size" /\ calc.pc \in { "send", "done" }
       => calc.size >= MIN_SEND_SIZE
  /\ calc # <<>> /\ calc.f = "get_send_size" /\ calc.pc = "done"
       => calc.pv = <<"-s", calc.size>>
\* C22 for the outputs whose last line ends in a number, which holds
C22_FlooredWhenNumber ==
  calc # <<>> /\ calc.f = "get_send_size" /\ calc.pc \in { "send", "done" }
  /\ trim(calc.in.stdout) # <<>>
  /\ is_ascii_digit(trim(calc.in.stdout)[Len(trim(calc.in.stdout))])
    => calc.size >= MIN_SEND_SIZE


\* ================================================= dataset-name properties
FsParsed == calc # <<>> /\ calc.f = "Fs::new" /\ calc.pc = "done"
\* the places of the dataset string where a ':' stands with neither ':' nor
\* '/' before it: the first ':' if it comes before any '/'
SplitPoints(s) ==
  { i \in DOMAIN s : s[i] = ":" /\ \A j \in 1 .. i - 1 : s[j] \notin { ":", "/" } }

\* C23: Fs::new gives a result for every input.  Without a host override, if
\* the first ':' comes before any '/', the host is the text before it and the
\* name all that follows (later ':' stay in the name); otherwise the endpoint
\* is local and the name the whole string.  With a host override the string
\* is not split, the host is the override, and an empty override is local.
C23_FsNewRule ==
  FsParsed =>
    LET s == calc.in.fs
        h == calc.in.host_opt
    IN /\ h = NoHost /\ SplitPoints(s) # {} =>
            \E i \in SplitPoints(s) :
              /\ calc.out.host = SubSeq(s, 1, i - 1)
              /\ calc.out.fs = SubSeq(s, i + 1, Len(s))
       /\ h = NoHost /\ SplitPoints(s) = {} =>
            calc.out.host = NoHost /\ calc.out.fs = s
       /\ h # NoHost =>
            /\ calc.out.fs = s
            /\ calc.out.host = IF h = <<>> THEN NoHost ELSE h
\* GetSsh::new follows the same rule
C23_GetSshAgrees == FsParsed => calc.ssh = calc.out
\* `h:/:` is split at its first ':', the later one staying in the name
C23_Witness ==
  /\ FsParsed
  /\ calc.in.host_opt = NoHost
  /\ calc.in.fs = <<"h", ":", "/", ":">>
  /\ calc.out = [host |-> <<"h">>, fs |-> <<"/", ":">>]
\* `h/:h` is local, and `h:h` is not split under an empty override
C23_WitnessLocal ==
  /\ FsParsed
  /\ \/ calc.in.host_opt = NoHost /\ calc.in.fs = <<"h", "/", ":", "h">>
     \/ calc.in.host_opt = <<>> /\ calc.in.fs = <<"h", ":", "h">>
  /\ calc.out = [host |-> NoHost, fs |-> calc.in.fs]


\* ==================================================== escaping properties
\* C24: escaping is reversible by a POSIX shell: for every argument a (the
\* empty string and strings with backslash, backquote or single quote
\* included), reading escape_str(a) as a shell word yields exactly a.
C24_EscapeReversible ==
  calc # <<>> /\ calc.f = "escape_str" /\ calc.pc = "read" => calc.words = <<calc.in>>
\* what does hold: an argument with a character of EscapeSpecials is read back
\* as itself, single quotes, backslashes and backquotes in it included
C24_ReversibleWhenQuoted ==
  calc # <<>> /\ calc.f = "escape_str" /\ calc.pc = "read"
    /\ (\E i \in DOMAIN calc.in : calc.in[i] \in EscapeSpecials)
    => calc.words = <<calc.in>>
\* an argument with a single quote and a backslash was quoted and read back
C24_WitnessQuoted ==
  /\ calc # <<>> /\ calc.f = "escape_str" /\ calc.pc = "read"
  /\ calc.in = <<"'", "\\">>
  /\ calc.words = <<calc.in>>
\* a backslash outside quotes was eaten by the shell
C24_WitnessBackslash ==
  /\ calc # <<>> /\ calc.f = "escape_str" /\ calc.pc = "read"
  /\ calc.in = <<"a", "\\", "a">>
  /\ calc.words = << <<"a", "a">> >>


\* ================================================== ssh master properties
SshRan(op) == { i \in DOMAIN ssh.ran : ssh.ran[i].op = op }
\* the masters that were started, and the remote hosts of the run
Masters == { i \in SshRan("master") : ssh.ran[i].ok }
RemoteHosts == { ssh.source_host, ssh.target_host } \ { NoHost }
\* check_ssh_if_needed returned Ok
SetUp == ssh.pc \in { "CmdConfig::new", "sync", "destroy_ssh_masters" } \/ ssh.result = "Ok"
\* neither endpoint has the empty host name of `:pool/fs`
HostsNamed == ssh.source_host # <<>> /\ ssh.target_host # <<>>
MastersPerHost ==
  /\ SetUp => Cardinality(Masters) = Cardinality(RemoteHosts)
  /\ SetUp /\ ssh.result # "Ok" /\ is_remote(ssh.source_host)
       /\ ssh.source_host = ssh.target_host
       => ssh.source_control # NoControl /\ ssh.target_control = ssh.source_control
  /\ ssh.result = "Ok"
       => /\ Cardinality(SshRan("exit")) = Cardinality(Masters)
          /\ \A i \in Masters :
               \E j \in SshRan("exit") : ssh.ran[j].control = ssh.ran[i].control

\* C25: the number of SSH masters started equals the number of distinct
\* remote hosts among source and target; with the same host on both sides one
\* master is started and both targets carry its socket path; on a clean exit
\* one `-O exit` is issued per started master.
C25_MasterPerRemoteHost == ssh # <<>> => MastersPerHost
\* the same, for runs where no endpoint has the empty host name
C25_MasterPerNamedHost == ssh # <<>> /\ HostsNamed => MastersPerHost
\* a run to a remote target with the empty host name went on without a master
C25_WitnessNoMaster ==
  /\ ssh # <<>> /\ ssh.result = "Ok"
  /\ ssh.source_host = NoHost /\ ssh.target_host = <<>>
  /\ Masters = {}
\* one master served both sides of a run within one remote host
C25_WitnessShared ==
  /\ ssh # <<>> /\ ssh.result = "Ok"
  /\ ssh.source_host = <<"a">> /\ ssh.target_host = <<"a">>
  /\ Cardinality(Masters) = 1 /\ Cardinality(SshRan("exit")) = 1

\* the master of host h was started and passed its echo test before command i
MasterReady(h, i) ==
  \E j \in 1 .. i - 1, k \in 1 .. i - 1 :
    /\ j < k
    /\ ssh.ran[j] = Ran("master", h, ssh.ran[j].control, TRUE)
    /\ ssh.ran[k] = Ran("echo", h, ssh.ran[j].control, TRUE)
MastersFirst ==
  /\ \A i \in SshRan("check zfs") \cup SshRan("check ps") \cup SshRan("zfs") :
       \A h \in RemoteHosts : MasterReady(h, i)
  /\ \A i \in SshRan("master") \cup SshRan("echo") :
       ~ ssh.ran[i].ok
         => /\ ssh.pc = "done" /\ ssh.result = "Err"
            /\ SshRan("zfs") = {}
            /\ ssh.source_host = ssh.ran[i].host => ssh.source_control = NoControl
            /\ ssh.target_host = ssh.ran[i].host => ssh.target_control = NoControl

\* C26: with a remote endpoint, no probe of zfs or ps, no zfs command and no
\* pipeline is run before every required master was started and passed
\* its echo test (the local probe for ssh itself comes first); if a master or
\* its echo test fails the run fails with no zfs command issued and the
\* failing target's socket path unset.
C26_MastersBeforeCommands == ssh # <<>> => MastersFirst
\* the same, for runs where no endpoint has the empty host name
C26_NamedMastersBeforeCommands == ssh # <<>> /\ HostsNamed => MastersFirst
\* commands ran on a remote target for which no master was ever started
C26_WitnessUnmastered ==
  /\ ssh # <<>> /\ ssh.target_host = <<>> /\ SshRan("master") = {}
  /\ \E i \in SshRan("check ps") : ssh.ran[i].host = <<>>
\* the echo test of the second master failed and the run stopped there
C26_WitnessEchoFailed ==
  /\ ssh # <<>> /\ ssh.pc = "done" /\ ssh.result = "Err"
  /\ ssh.source_host = <<"a">> /\ ssh.target_host = <<"u", "@", "a">>
  /\ Cardinality(Masters) = 2
  /\ \E i \in SshRan("echo") : ~ ssh.ran[i].ok

\* all datasets were synced
Synced == SshRan("zfs") # {} /\ \A i \in SshRan("zfs") : ssh.ran[i].ok
\* C27: teardown is best-effort: after all datasets synced, a failing
\* `ssh -S socket host -O exit` neither makes the run fail nor keeps the
\* teardown of the other host's master from being attempted.
C27_TeardownBestEffort ==
  ssh # <<>> /\ ssh.pc = "done" /\ Synced
    => /\ ssh.result = "Ok"
       /\ \A i \in Masters :
            \E j \in SshRan("exit") : ssh.ran[j].control = ssh.ran[i].control
\* the exit of the source's master failed: the run failed and the target's
\* master was left alone
C27_WitnessAbandoned ==
  /\ ssh # <<>> /\ ssh.pc = "done" /\ Synced /\ ssh.result = "Err"
  /\ Cardinality(Masters) = 2 /\ Cardinality(SshRan("exit")) = 1
  /\ ssh.target_control # NoControl


\* ============================================== pipeline process properties
\* the pipelines that exited by themselves with a nonzero status
FailedPipelines == { p \in 1 .. procs.n : procs.exited[p] /\ procs.status[p] # 0 }
\* C28: run_sync_pipelines returns an error whenever one of the one to three
\* pipeline processes exits nonzero, every process of the sync has been
\* terminated and reaped before it returns, and it returns success only if
\* all of them exited zero.
C28_ErrorOnAnyFailure ==
  InRun /\ procs.pc = "done"
    => /\ FailedPipelines # {} => procs.result = "Err"
       /\ procs.result = "Ok"
            => \A p \in 1 .. procs.n : procs.signalled[p] \/ (procs.exited[p] /\ procs.status[p] = 0)
       /\ \A p \in 1 .. procs.n : procs.st[p] = "reaped"
\* what does hold: the result is the status of the last pipeline, and every
\* process has been reaped on return
C28_LastStatusDecides ==
  InRun /\ procs.pc = "done"
    => /\ procs.result = "Ok" <=> procs.status[procs.n] = 0
       /\ \A p \in 1 .. procs.n : procs.st[p] = "reaped"
\* the source pipeline exited nonzero and the sync was reported as done
C28_WitnessFailureMissed ==
  /\ InRun /\ procs.pc = "done" /\ procs.n = MaxProcs
  /\ procs.status[1] = 1
  /\ procs.result = "Ok"


\* ====================================================== AutoKill properties
Dropped == Guarded /\ procs.pc = "dropped"
\* C29 as stated: for every interleaving of the child's exit with terminate,
\* wait and drop, once the guard is dropped the child has been reaped; if
\* drop found it unreaped it was sent SIGTERM and then waited on; SIGTERM is
\* sent at most once per guard and never after the child has been reaped.
C29_SignalledWhenUnreaped ==
  /\ Dropped => procs.child = "reaped"
  /\ Dropped /\ procs.running_at_drop => procs.sigterm = 1
  /\ Guarded => procs.sigterm <= 1 /\ ~ procs.sigterm_late
\* C29 amended: the same, but a child that drop found unreaped was sent
\* SIGTERM unless it exited by itself before terminate's own check, which
\* then reaped it.
C29_SignalledUnlessExited ==
  /\ Dropped => procs.child = "reaped"
  /\ Dropped /\ procs.running_at_drop
       => \/ procs.sigterm = 1
          \/ procs.sigterm = 0 /\ procs.reaped_by = "terminate"
  /\ Guarded => procs.sigterm <= 1 /\ ~ procs.sigterm_late
\* a child that ignored the SIGTERM of an earlier terminate was found running
\* at drop, not signalled again, killed and reaped
C29_Witness ==
  /\ Dropped /\ procs.running_at_drop
  /\ procs.calls > 0 /\ procs.sigterm = 1 /\ procs.sigkill
  /\ procs.reaped_by = "drop wait"
\* a child found running at drop exited before terminate looked: no SIGTERM
C29_WitnessRace ==
  /\ Dropped /\ procs.running_at_drop
  /\ procs.sigterm = 0 /\ procs.reaped_by = "terminate"


\* ============================================ privilege elevation properties
RootsDone == calc # <<>> /\ calc.f = "get_is_roots" /\ calc.pc = "done"
\* C30: with --no-privilege-elevation no zfs command of the run is prefixed
\* with sudo, whatever the endpoints and the local user id.
C30_NoSudoWhenBypassed ==
  RootsDone /\ calc.in.no_privilege_elevation
    => Head(calc.source_zfs) # "sudo" /\ Head(calc.target_zfs) # "sudo"
\* what does hold: with the flag, an endpoint given as user@host gets no sudo
C30_NoSudoForUserAtHost ==
  RootsDone /\ calc.in.no_privilege_elevation
    => /\ calc.in.source # NoHost /\ Contains(calc.in.source, "@")
            => Head(calc.source_zfs) # "sudo"
       /\ calc.in.target # NoHost /\ Contains(calc.in.target, "@")
            => Head(calc.target_zfs) # "sudo"
\* a local sync by an ordinary user: sudo zfs on both sides despite the flag
C30_WitnessSudo ==
  /\ RootsDone /\ calc.in.no_privilege_elevation
  /\ calc.in.source = NoHost /\ calc.in.target = NoHost /\ calc.in.uid # 0
  /\ calc.source_zfs = <<"sudo", "zfs">> /\ calc.target_zfs = <<"sudo", "zfs">>


\* ==================================================== matching properties
Matched == calc # <<>> /\ calc.f = "matching" /\ calc.pc = "done"
\* source snapshot i has a target snapshot of the same name and guid
InTarget(i) ==
  \E j \in DOMAIN calc.target_snaps :
    /\ calc.target_snaps[j].name = calc.source_snaps[i].name
    /\ calc.target_snaps[j].guid = calc.source_snaps[i].guid
\* a snapshot match is the newest common snapshot, with what follows it
NewestCommonSnapshot ==
  Matched /\ ~ calc.consulted
    => /\ calc.out.inter.kind = "Snapshot"
       /\ \E i \in DOMAIN calc.source_snaps :
            /\ InTarget(i)
            /\ \A k \in DOMAIN calc.source_snaps : k > i => ~ InTarget(k)
            /\ calc.out.inter.snap = calc.source_snaps[i]
            /\ Len(calc.out.rest) = Len(calc.source_snaps) - i
            /\ \A k \in DOMAIN calc.out.rest :
                 /\ calc.out.rest[k] = calc.source_snaps[i + k]
                 /\ calc.out.rest[k].creation >= calc.out.inter.snap.creation
                 /\ calc.out.rest[k].name # calc.out.inter.snap.name
\* no snapshot matched exactly when the target holds none of the source's
NoMatchIffNone ==
  calc # <<>> /\ calc.f = "matching" /\ calc.pc \in { "bookmarks", "done" }
    => (calc.pc = "bookmarks" \/ calc.consulted
          <=> \A i \in DOMAIN calc.source_snaps : ~ InTarget(i))
\* C31: get_matching_snapshot returns the newest source snapshot that the
\* target holds under the same name and guid, with exactly the source
\* snapshots after it (all strictly newer); no match iff there is none.
C31_NewestCommonSnapshot == NewestCommonSnapshot /\ NoMatchIffNone
\* an older and a newer snapshot are both on the target, one of the same
\* second follows: the newer is the match, the follower the rest
C31_Witness ==
  /\ Matched /\ ~ calc.consulted
  /\ Len(calc.source_snaps) = 3
  /\ InTarget(1) /\ InTarget(2) /\ ~ InTarget(3)
  /\ calc.out.inter.snap = calc.source_snaps[2]
  /\ calc.out.rest = << calc.source_snaps[3] >>


\* the target snapshots whose guid is the guid of a source bookmark
BookmarkedOnTarget ==
  { j \in DOMAIN calc.target_snaps :
      \E k \in DOMAIN calc.source_bookmarks :
        calc.source_bookmarks[k].guid = calc.target_snaps[j].guid }
C32_WitnessEmptyTail ==
  /\ Matched /\ calc.consulted
  /\ calc.out.inter.kind = "Bookmark" /\ calc.source_snaps # <<>>
  /\ calc.out.rest = <<>>


\* ====================================================== catalog properties
\* the names of the source catalog as this run read it, the appended sync
\* snapshot included
CatalogNames == { source_snaps[i].name : i \in DOMAIN source_snaps }
\* the snapshot a send transfers (a full send carries it as send_from)
SentSnapshot(c) == IF c.x.to # NoName THEN c.x.to ELSE c.x.from.n
\* what a send names besides the origin of a clone: the token, or entries of
\* the source's snapshot list, or the matched bookmark of the source
NamesCatalogEntries(c) ==
  \/ c.x.from.k = "token"
  \/ /\ c.x.from.k = "snapshot"
     /\ c.x.from.n \in CatalogNames
     /\ SentSnapshot(c) \in CatalogNames
  \/ /\ c.x.from.k = "bookmark"
     /\ matching.inter.kind = "Bookmark"
     /\ c.x.from.n = matching.inter.snap.name
     /\ c.x.to \in CatalogNames
\* C33 as stated: every `zfs send` issued by sync_dataset names as its source
\* the resume token or a snapshot or bookmark of the source dataset's catalog
\* as read in this run, the clone send from the origin and the sends
\* prepared under --dry-run included.
C33_SendsNameCatalog ==
  \A i \in DOMAIN Sends : NamesCatalogEntries(Sends[i])
\* C33 amended: every `zfs send` issued by sync_dataset sends the stream of
\* the resume token or a snapshot of the source's catalog as read in this
\* run, and names as its incremental source an entry of that catalog, the
\* matched bookmark of the source, or, in the clone send, the origin of the
\* source, which is a snapshot of another dataset and no entry of the
\* catalog; sends prepared under --dry-run included.
C33_SendsNameCatalogOrOrigin ==
  \A i \in DOMAIN Sends :
    \/ NamesCatalogEntries(Sends[i])
    \/ /\ Sends[i].x.from.k = "origin"
       /\ source.origin # NoFs
       /\ Sends[i].x.to \in CatalogNames
\* a clone was sent from its origin under --dry-run, and a bookmark anchored
\* a send in some run
C33_Witness ==
  \E i \in DOMAIN Sends :
    /\ Sends[i].x.from.k = "origin" /\ args.dry_run
    /\ Sends[i].x.to \in CatalogNames /\ created_new_sync_snap # NoName
C33_WitnessBookmark ==
  \E i \in DOMAIN Sends : Sends[i].x.from.k = "bookmark"


\* C34: the fake newest entry appended for the sync snapshot this run created
\* is the last element of the source list, and the matching stage never
\* returns it as the match, on a fresh target whose source had no snapshot
\* before this run as on every other path.
C34_FakeNewestNeverMatched ==
  created_new_sync_snap # NoName
    => /\ source_snaps # <<>>
       /\ source_snaps[Len(source_snaps)] = fake_newest(created_new_sync_snap)
       /\ \A i \in 1 .. (Len(source_snaps) - 1) :
            source_snaps[i].creation < FAKE_NEW_SYNC_CREATION
       /\ ~ (/\ ~ is_none(matching)
             /\ matching.inter.snap = fake_newest(created_new_sync_snap))


\* ====================================================== listing properties
\* get_snaps has read the lines in both orders
Listed == calc # <<>> /\ calc.f = "get_snaps" /\ calc.pc = "done"
\* a sorted list without the running number of its Creations
NameGuidSecond(list) ==
  [i \in DOMAIN list |->
     <<list[i].name, list[i].guid, list[i].creation.creation>>]
\* where a line stands in the other order
PermutedAt(r) == CHOOSE k \in DOMAIN calc.permuted : calc.permuted[k] = r
\* the other order leaves the creation lines of snapshots of one second in
\* the order zfs listed them
KeepsSameSecondOrder ==
  \A i, j \in DOMAIN calc.rows :
    /\ i < j
    /\ calc.rows[i].property = "creation"
    /\ calc.rows[j].property = "creation"
    /\ calc.rows[i].value = calc.rows[j].value
    => PermutedAt(calc.rows[i]) < PermutedAt(calc.rows[j])
\* C35 as stated: for every valid catalog and every permutation of its
\* lines, snapshots created in the same second included, get_snaps returns
\* the identical sorted list.
C35_SortIgnoresListingOrder ==
  Listed => NameGuidSecond(calc.out) = NameGuidSecond(calc.out_permuted)
\* C35 amended: for every valid catalog and every permutation of its lines
\* that keeps the creation lines of snapshots created in the same second in
\* their relative order, get_snaps returns the identical sorted list;
\* snapshots of the same second are returned in the order of their creation
\* lines, and snapshots of different seconds in ascending order of creation
\* whatever the permutation.
C35_SortKeepsListingOrderWithinSecond ==
  Listed
    => /\ KeepsSameSecondOrder
            => NameGuidSecond(calc.out) = NameGuidSecond(calc.out_permuted)
       /\ \A i, j \in DOMAIN calc.out_permuted :
            i < j
            => /\ calc.out_permuted[i].creation.creation
                    <= calc.out_permuted[j].creation.creation
               /\ calc.out_permuted[i].creation.idx
                    < calc.out_permuted[j].creation.idx
                    \/ calc.out_permuted[i].creation.creation
                         < calc.out_permuted[j].creation.creation
\* two snapshots of one second, their lines permuted with the creation lines
\* left in order: the same list comes back
C35_Witness ==
  /\ Listed
  /\ calc.rows # calc.permuted
  /\ KeepsSameSecondOrder
  /\ Len(calc.out) = 2
  /\ calc.out[1].creation.creation = calc.out[2].creation.creation
  /\ calc.out[1].name > calc.out[2].name
  /\ NameGuidSecond(calc.out) = NameGuidSecond(calc.out_permuted)


\* ====================================================== filtered stream
\* the -i sends of the run that are no clone send, in order
IntermediateSends ==
  SelectSeq(Sends, LAMBDA c : c.x.flag = "-i" /\ c.x.from.k # "origin")
\* what the j-th send of the chain from the match m over its tail names
ChainFrom(m, j) ==
  IF j = 1
  THEN [k |-> IF m.inter.kind = "Bookmark" THEN "bookmark" ELSE "snapshot",
        n |-> m.inter.snap.name]
  ELSE [k |-> "snapshot", n |-> m.rest[j - 1].name]
C36_WitnessStops ==
  /\ SnapsFiltered(args) /\ ~ args.no_stream /\ ~ is_none(matching)
  /\ Len(matching.rest) = 2
  /\ Len(IntermediateSends) = 1 /\ ~ IntermediateSends[1].ok
  /\ pc = "done"


\* ====================================================== clone create path
\* the target does not exist and source and target both carry an origin
CloneCase ==
  target_exists = "no" /\ source.origin # NoFs /\ target.origin # NoFs
IsCloneSend(c) == c.x.flag = "-i" /\ c.x.from.k = "origin"
IsFullSend(c) == c.x.flag = ""
\* the initial send failed the dataset: sync_dataset returned an error of a
\* send before any match was made
InitialSendFailed ==
  /\ pc = "done"
  /\ result \notin { Ok, Err("Other", MsgSnapshot), Err("Other", MsgNoSnap) }
  /\ is_none(matching)
\* the fallback was tried: the clone send ran and failed, or found the
\* target busy
FallbackTried ==
  \/ Sends # <<>>
  \/ \E i \in DOMAIN cmds : cmds[i].op = "ps" /\ cmds[i].ok
\* the dataset fails on the initial send only after the fallback was tried
FailsOnlyAfterFallback == CloneCase /\ InitialSendFailed => FallbackTried
\* C37: when the target does not exist and source and target both carry an
\* origin, the first send is `zfs send -i <origin> <source>@<snapshot>`; when
\* it fails, one full send of the same snapshot is attempted next, no further
\* sync snapshot is created, and the dataset fails only if the full send
\* fails too.  When either origin is absent no clone send is issued.
C37_CloneThenFull ==
  /\ CloneCase /\ Sends # <<>> => IsCloneSend(Sends[1])
  /\ \A i \in DOMAIN Sends :
       IsCloneSend(Sends[i]) /\ ~ Sends[i].ok /\ i < Len(Sends)
       => /\ IsFullSend(Sends[i + 1])
          /\ SentSnapshot(Sends[i + 1]) = SentSnapshot(Sends[i])
  /\ CloneCase => Len(SelectSeq(Sends, IsFullSend)) <= 1
  /\ Len(SelectSeq(cmds, LAMBDA c : c.op = "snapshot")) <= 1
  /\ FailsOnlyAfterFallback
  /\ ~ CloneCase => \A i \in DOMAIN Sends : ~ IsCloneSend(Sends[i])


\* ====================================================== read_until_hup properties
HupReturned == Hup /\ procs.pc = "done"
\* one pair per child, in child order, each with the child's exit status
OnePairPerChild ==
  HupReturned
    => /\ procs.result.status = "ok"
       /\ DOMAIN procs.result.pairs = HupChildren
       /\ \A i \in HupChildren :
            /\ procs.result.pairs[i] = <<procs.outputs[i], procs.children[i].code>>
            /\ procs.children[i].reaped
            /\ procs.outputs[i] <= procs.children[i].written
\* when every child exited zero, every stream had hung up and was read to
\* its end, and no child was signalled
ZeroExitsReadToHangUp ==
  HupReturned /\ (\A i \in HupChildren : procs.children[i].code = 0)
    => /\ procs.pollfds = <<>>
       /\ \A i \in HupChildren :
            /\ ~ procs.children[i].open
            /\ procs.outputs[i] = procs.children[i].written
            /\ ~ procs.children[i].sigterm
\* after a failure every child whose status is missing is sent SIGTERM when
\* try_wait finds it running, and is waited for
FailureTerminatesTheRest ==
  /\ Hup /\ procs.pc = "wait" /\ procs.children[procs.at].alive
       => procs.children[procs.at].sigterm
  /\ Hup => \A i \in HupChildren : procs.children[i].sigterm => procs.failed
  /\ Hup /\ procs.pc \in { "terminate", "wait" }
       => \A i \in HupChildren :
            i < procs.at => procs.statuses[i] # NoExitStatus
\* a stream was read after a child had been seen to exit nonzero
ReadAfterFailure ==
  \E j, k \in DOMAIN procs.events :
    /\ j < k
    /\ procs.events[j][1] = "wait" /\ procs.events[j][3] # 0
    /\ procs.events[k][1] = "read"
C38_WitnessZero ==
  /\ HupReturned /\ ~ procs.failed
  /\ \A i \in HupChildren : procs.outputs[i] = MaxChunks


\* C39: every ssh master that was started is sent `-O exit` before the
\* process exits, on every exit path: when a dataset sync, a preflight check
\* or a command existence check fails as well, and for a master whose echo
\* test failed after it had started.
C39_MastersAlwaysExited ==
  ssh # <<>> /\ ssh.pc = "done"
    => \A i \in Masters :
         \E j \in SshRan("exit") :
           j > i /\ ssh.ran[j].control = ssh.ran[i].control


\* ====================================================== bandwidth properties
BwParsed == calc # <<>> /\ calc.f = "Bytes::try_from_str" /\ calc.pc = "done"
\* one or more digits denoting a nonzero value of 64 bits, optionally
\* followed by one suffix out of k, K, m, M, g, G, t, T
WellFormedSize(value) ==
  \E n \in 1 .. Len(value) :
    /\ \A i \in 1 .. n : char_is_ascii_digit(value[i])
    /\ \/ n = Len(value)
       \/ n + 1 = Len(value) /\ value[n + 1] \in SUFFIXES
    /\ \E i \in 1 .. n : value[i] # "0"
    /\ ~ ExceedsU64(StripZeros(SubSeq(value, 1, n)))
\* C40: Bytes::try_from_str is total: for every input (the empty string, a
\* bare suffix and digits too large for 64 bits included) it returns Ok with
\* a nonzero size or Err and never panics, and it returns Ok exactly for one
\* or more digits denoting a nonzero 64-bit value with at most one suffix.
C40_TotalNeverPanics ==
  BwParsed
    => /\ calc.out.status \in { "Ok", "Err" }
       /\ calc.out.status = "Ok" => calc.out.size # <<>>
       /\ calc.out.status = "Ok" <=> WellFormedSize(calc.in)

====
